---- MODULE Spec2Model ----
(***************************************************************************)
(* State-machine model of the RAG customer-support backend:                *)
(*   src/api_server.py                 HTTP handlers, registries, workers  *)
(*   src/rag_doc_vect_embedding_csv.py DocumentProcessor (chunk + commit)  *)
(* Handlers are asyncio coroutines: a handler runs atomically up to its    *)
(* next real suspension point (an await that yields to the event loop).    *)
(* Each action below is one such atomic segment.                           *)
(***************************************************************************)
EXTENDS Integers, Sequences, FiniteSets, TLC

VARIABLES
    RAG_AVAILABLE,      \* api_server.py:29/33, fixed at import time
    now,                \* datetime.now(), in clock ticks
    chat_tasks,         \* api_server.py:78, task_id -> dict
    issued,             \* task ids uuid4 has already returned
    wpc,                \* position of each task's process_chat_task worker
    hist,               \* history: the statuses each task has been given, in order
    submitted,          \* history: question/created_at written at submission
    raised,             \* history: the exception a task's external call raised
    response,           \* what the step just taken answered to its caller
    knowledge_bases,    \* api_server.py:75
    documents_storage,  \* api_server.py:76
    files,              \* the ./data directory: path -> content
    uploads,            \* upload_document calls suspended in await file.read()
    accepted,           \* number of uploads that passed the checks so far
    jobs,               \* process_uploaded_document tasks added and not yet run
    vector_index,       \* the Chroma collection: chunk_id -> page_content
    store_log,          \* history: the process_and_store calls made so far
    key_order           \* the keys of the two registries as the dicts hold them

chatVars == <<chat_tasks, issued, wpc, hist, submitted, raised>>
regVars  == <<knowledge_bases, documents_storage, files, uploads, accepted, jobs>>
idxVars  == <<vector_index, store_log>>
vars     == <<RAG_AVAILABLE, now, response, chatVars, regVars, idxVars, key_order>>

----------------------------------------------------------------------------
(* Bounds of the model *)

MaxTasks == 2
MaxTime == 2
TicksPerHour == 1

(* Program constants *)

RetentionHours == 1

----------------------------------------------------------------------------
(* Python helpers *)

\* {**old, k: v, ...}: the keys of new override those of old
Merge(old, new) ==
    [k \in (DOMAIN old) \cup (DOMAIN new) |->
        IF k \in DOMAIN new THEN new[k] ELSE old[k]]

\* d.get(k) with a default
Get(d, k, default) == IF k \in DOMAIN d THEN d[k] ELSE default

\* the dict d without key k (del d[k])
Del(d, k) == [x \in (DOMAIN d) \ {k} |-> d[x]]

\* d[k] = v on a dict
Put(d, k, v) == [x \in (DOMAIN d) \cup {k} |-> IF x = k THEN v ELSE d[x]]

EmptyDict == <<>>

\* list(d.keys()) after a handler has run: a dict keeps its keys in the
\* order they were first assigned, so a key that is still there keeps its
\* place and a new key (no handler adds more than one) goes to the end
KeysAfter(order, d) ==
    LET new == (DOMAIN d) \ {order[i] : i \in 1..Len(order)} IN
    SelectSeq(order, LAMBDA k : k \in DOMAIN d)
        \o (IF new = {} THEN <<>> ELSE <<CHOOSE k \in new : TRUE>>)

\* list(d.values())
Values(d, order) == [i \in 1..Len(order) |-> d[order[i]]]

\* the keys of both registries follow what the handler did to them
OrderFollows ==
    key_order' =
        [knowledge_bases |->
            KeysAfter(key_order.knowledge_bases, knowledge_bases'),
         documents_storage |->
            KeysAfter(key_order.documents_storage, documents_storage')]

None == [py |-> "None"]

\* datetime.isoformat() / datetime.fromisoformat(): a naive datetime survives
\* the round trip exactly; the stored value is a string, not a datetime
isoformat(t) == [iso |-> t]
fromisoformat(s) == s.iso

\* text is a sequence of one-character strings.  Whitespace holds the
\* characters str.split() and str.strip() separate on (str.isspace()): those
\* of ASCII as themselves, the others as their code points
Whitespace ==
    {" ", "\t", "\n", "\r", "\f", "", "", "", "", "",
     "U+0085", "U+00A0", "U+1680", "U+2000", "U+2001", "U+2002", "U+2003",
     "U+2004", "U+2005", "U+2006", "U+2007", "U+2008", "U+2009", "U+200A",
     "U+2028", "U+2029", "U+202F", "U+205F", "U+3000"}

\* len(s.split()): the number of maximal runs of non-whitespace characters,
\* counted at the character each run ends with
CountTokens(s) ==
    LET TokenEnds(text) ==
            {i \in 1..Len(text) :
                /\ text[i] \notin Whitespace
                /\ (i = Len(text) \/ text[i + 1] \in Whitespace)}
    IN  Cardinality(UNION {TokenEnds(text) : text \in {s}})

----------------------------------------------------------------------------
(* Inputs of the chat subsystem *)

TaskIds == {"uuid-" \o ToString(i) : i \in 1..MaxTasks}

Models == {"hy"}

\* request bodies: one user message, a conversation whose last user message
\* differs from its first, and one without any user message
ChatRequests ==
    {[model |-> m, messages |-> msgs] :
        m \in Models,
        msgs \in {<<[role |-> "user", content |-> <<"a", " ", "b">>]>>,
                  <<[role |-> "user", content |-> <<"q">>],
                    [role |-> "assistant", content |-> <<"x">>],
                    [role |-> "user", content |-> <<"a", " ", "b">>]>>,
                  <<[role |-> "system", content |-> <<"s">>]>>}}

\* what chain.invoke (prompt | OllamaLLM) may return: a str
Answers == {[str |-> TRUE, text |-> <<"o", "k", " ", "!">>]}

\* str(e) of what retriever.invoke / chain.invoke may raise
Errors == {"connection refused"}

Terminal == {"completed", "failed"}
Statuses == {"processing", "retrieving", "generating"} \cup Terminal

----------------------------------------------------------------------------
(* The asynchronous chat task state machine, api_server.py:552-742 *)

NoResponse == [op |-> "none"]

\* mutant of uuid4: a token that may already name a task
uuid4_reused == TaskIds

\* str(uuid.uuid4()): a token no earlier call has returned
uuid4 == TaskIds \ issued

\* task_id[:10]; the ids of the model are shorter than 10 characters
Prefix10(task_id) == task_id

\* mutant of HTTPException: the error leaves the handler as a success
HTTPException_asOk(op, code, detail) == [op |-> op, code |-> 200, detail |-> detail]

\* HTTPException(status_code, detail) leaving a handler
HTTPException(op, code, detail) == [op |-> op, code |-> code, detail |-> detail]

\* str(KeyError(k))
KeyErrorStr(k) == "'" \o k \o "'"

\* user_messages = [msg for msg in request.messages if msg.role == "user"]
UserMessages(request) ==
    SelectSeq(request.messages, LAMBDA m : m.role = "user")

\* mutant of InitialTask: the record starts one state too far
InitialTask_retrieving(question) ==
    [status |-> "retrieving",
     result |-> None,
     created_at |-> isoformat(now),
     question |-> question]

\* the task record written at submission, api_server.py:567-572
InitialTask(question) ==
    [status |-> "processing",
     result |-> None,
     created_at |-> isoformat(now),
     question |-> question]

\* the "usage" block, api_server.py:637-641
\* mutant of Usage: the total leaves the prompt out
Usage_promptDropped(question, answer) ==
    LET completion == IF answer.str THEN CountTokens(answer.text) ELSE 50
    IN  [prompt_tokens |-> CountTokens(question),
         completion_tokens |-> completion,
         total_tokens |-> completion]

\* the usage block, api_server.py:637-641 and 696-700
Usage(question, answer) ==
    LET completion == IF answer.str THEN CountTokens(answer.text) ELSE 50
    IN  [prompt_tokens |-> CountTokens(question),
         completion_tokens |-> completion,
         total_tokens |-> CountTokens(question) + completion]

\* the chat.completion payload, api_server.py:622-642 and 681-701
Completion(task_id, question, model, answer) ==
    [id |-> "chatcmpl-" \o Prefix10(task_id),
     object |-> "chat.completion",
     created |-> now,
     model |-> model,
     choices |-> <<[index |-> 0,
                    message |-> [role |-> "assistant", content |-> answer],
                    finish_reason |-> "stop"]>>,
     usage |-> Usage(question, answer)]

\* the keys laid over the old record on success, api_server.py:618-644 / 677-703
CompletedFields(task_id, question, model, answer, message) ==
    [status |-> "completed",
     message |-> [text |-> message, err |-> ""],
     result |-> Completion(task_id, question, model, answer),
     completed_at |-> isoformat(now)]

\* mutant of FailedFields: the completion stamp copied into the failure record
FailedFields_completedAt(prefix, err) ==
    [status |-> "failed",
     message |-> [text |-> prefix, err |-> err],
     error |-> err,
     completed_at |-> isoformat(now)]

\* the keys laid over the old record on failure, api_server.py:650-656 / 709-715
FailedFields(prefix, err) ==
    [status |-> "failed",
     message |-> [text |-> prefix, err |-> err],
     error |-> err,
     failed_at |-> isoformat(now)]

\* the text of the demo-mode answer before and after the question,
\* api_server.py:661-675; a character outside ASCII is one element, written
\* as its code point
MockAnswerHead ==
    <<"U+611F", "U+8C22", "U+60A8", "U+7684", "U+54A8", "U+8BE2", "U+FF1A",
      "\"">>

MockAnswerTail ==
    <<"\"", "\n", "\n", "U+6211", "U+662F", "U+73B0", "U+4EE3", "U+6C7D",
      "U+8F66", "U+667A", "U+80FD", "U+5BA2", "U+670D", "U+52A9", "U+624B",
      "U+FF0C", "U+5F53", "U+524D", "U+7CFB", "U+7EDF", "U+8FD0", "U+884C",
      "U+5728", "U+6F14", "U+793A", "U+6A21", "U+5F0F", "U+3002", "\n", "\n",
      "U+5982", "U+679C", "U+60A8", "U+7684", "U+95EE", "U+9898", "U+662F",
      "U+5173", "U+4E8E", "U+FF1A", "\n", "U+2022", " ", "U+8F66", "U+578B",
      "U+4FE1", "U+606F", " ", "-", " ", "U+6211", "U+53EF", "U+4EE5",
      "U+4E3A", "U+60A8", "U+4ECB", "U+7ECD", "U+73B0", "U+4EE3", "U+6C7D",
      "U+8F66", "U+7684", "U+4E3B", "U+8981", "U+8F66", "U+578B", "\n",
      "U+2022", " ", "U+552E", "U+540E", "U+670D", "U+52A1", " ", "-", " ",
      "U+5305", "U+62EC", "U+4FDD", "U+517B", "U+3001", "U+7EF4", "U+4FEE",
      "U+3001", "U+4FDD", "U+4FEE", "U+7B49", "U+76F8", "U+5173", "U+670D",
      "U+52A1", "\n", "U+2022", " ", "U+8D2D", "U+8F66", "U+54A8", "U+8BE2",
      " ", "-", " ", "U+534F", "U+52A9", "U+60A8", "U+4E86", "U+89E3",
      "U+8D2D", "U+8F66", "U+6D41", "U+7A0B", "U+548C", "U+653F", "U+7B56",
      "\n", "\n", "U+4E3A", "U+4E86", "U+83B7", "U+5F97", "U+6700", "U+51C6",
      "U+786E", "U+7684", "U+4FE1", "U+606F", "U+FF0C", "U+5EFA", "U+8BAE",
      "U+60A8", "U+FF1A", "\n", "1", ".", " ", "U+8054", "U+7CFB", "U+5C31",
      "U+8FD1", "U+7684", "U+73B0", "U+4EE3", "U+6C7D", "U+8F66", "4", "S",
      "U+5E97", "\n", "2", ".", " ", "U+62E8", "U+6253", "U+73B0", "U+4EE3",
      "U+6C7D", "U+8F66", "U+5BA2", "U+670D", "U+70ED", "U+7EBF", "\n", "3",
      ".", " ", "U+8BBF", "U+95EE", "U+73B0", "U+4EE3", "U+6C7D", "U+8F66",
      "U+5B98", "U+65B9", "U+7F51", "U+7AD9", "\n", "\n", "U+6709", "U+4EC0",
      "U+4E48", "U+5176", "U+4ED6", "U+53EF", "U+4EE5", "U+5E2E", "U+52A9",
      "U+60A8", "U+7684", "U+5417", "U+FF1F">>

\* the demo-mode answer, api_server.py:661-675: the question embedded in a
\* fixed template
mock_answer(question) ==
    [str |-> TRUE, text |-> MockAnswerHead \o question \o MockAnswerTail]

\* outer handler, api_server.py:707-715: {**chat_tasks.get(task_id, {}), ...}
OuterExcept(tasks, task_id, err) ==
    Put(tasks, task_id,
        Merge(Get(tasks, task_id, EmptyDict), FailedFields("outer", err)))

\* mutant of InnerExcept: the failure record replaces the old one instead of
\* being laid over it
InnerExcept_dropsRecord(tasks, task_id, err) ==
    Put(tasks, task_id, FailedFields("rag", err))

\* mutant of InnerExcept: the failure is written to every task's entry
InnerExcept_failsAll(tasks, task_id, err) ==
    [u \in DOMAIN tasks |-> Merge(tasks[u], FailedFields("rag", err))]

\* inner handler, api_server.py:648-656: {**chat_tasks[task_id], ...}; the
\* lookup itself raises KeyError when the entry is gone, which the outer
\* handler then takes
InnerExcept(tasks, task_id, err) ==
    IF task_id \in DOMAIN tasks
    THEN Put(tasks, task_id, Merge(tasks[task_id], FailedFields("rag", err)))
    ELSE OuterExcept(tasks, task_id, KeyErrorStr(task_id))

\* where the worker stands after one of its handlers has run
AfterExcept == "done"

StatusOf(tasks, t) == IF t \in DOMAIN tasks THEN <<tasks[t].status>> ELSE <<>>

\* mutant of add_task: the worker is never scheduled
add_task_dropped(w, task_id, question, model) == w

\* background_tasks.add_task(process_chat_task, task_id, user_question,
\* request.model), api_server.py:575
add_task(w, task_id, question, model) ==
    [w EXCEPT ![task_id] =
        [at |-> "scheduled", question |-> question, model |-> model]]

\* POST /api/v1/chats_openai/{chat_id}/chat/completions, api_server.py:552-587
chat_completions(request) ==
    LET user_messages == UserMessages(request) IN
    /\ IF user_messages = <<>>
       THEN \* the HTTPException(400) of line 559 is raised inside the try and
            \* caught by "except Exception" at line 585, which raises a 500
            /\ response' = HTTPException("chat_completions", 500,
                                         [wrapped |-> 400])
            /\ UNCHANGED chatVars
       ELSE \E task_id \in uuid4 :
            LET user_question == user_messages[Len(user_messages)].content IN
            /\ chat_tasks' = Put(chat_tasks, task_id, InitialTask(user_question))
            /\ issued' = issued \cup {task_id}
            /\ wpc' = add_task(wpc, task_id, user_question, request.model)
            /\ hist' = [hist EXCEPT ![task_id] = <<"processing">>]
            /\ submitted' = [submitted EXCEPT ![task_id] =
                                [question |-> user_question,
                                 created_at |-> isoformat(now)]]
            /\ raised' = raised
            /\ response' = [op |-> "chat_completions", code |-> 200,
                            task_id |-> task_id, status |-> "processing",
                            poll_url |-> "/api/v1/chats_openai/task/" \o task_id]
    /\ UNCHANGED <<RAG_AVAILABLE, key_order, now, regVars, idxVars>>

\* process_chat_task up to its first await, api_server.py:591-604 / 659
WorkerStart(t) ==
    /\ wpc[t].at = "scheduled"
    /\ IF t \in DOMAIN chat_tasks
       THEN /\ chat_tasks' = [chat_tasks EXCEPT ![t] =
                   Merge(@, [status |-> "retrieving",
                             message |-> [text |-> "retrieving", err |-> ""]])]
            /\ wpc' = [wpc EXCEPT ![t].at =
                          IF RAG_AVAILABLE THEN "retrieve" ELSE "sleep"]
       ELSE /\ chat_tasks' = OuterExcept(chat_tasks, t, KeyErrorStr(t))
            /\ wpc' = [wpc EXCEPT ![t].at = AfterExcept]
    /\ hist' = [hist EXCEPT ![t] = @ \o StatusOf(chat_tasks', t)]
    /\ response' = NoResponse
    /\ UNCHANGED <<RAG_AVAILABLE, key_order, now, issued, submitted, raised, regVars, idxVars>>

\* retriever.invoke returned, api_server.py:605-615
RetrieveReturns(t) ==
    /\ wpc[t].at = "retrieve"
    /\ IF t \in DOMAIN chat_tasks
       THEN /\ chat_tasks' = [chat_tasks EXCEPT ![t] =
                   Merge(@, [status |-> "generating",
                             message |-> [text |-> "generating", err |-> ""]])]
            /\ wpc' = [wpc EXCEPT ![t].at = "generate"]
       ELSE /\ chat_tasks' = InnerExcept(chat_tasks, t, KeyErrorStr(t))
            /\ wpc' = [wpc EXCEPT ![t].at = AfterExcept]
    /\ hist' = [hist EXCEPT ![t] = @ \o StatusOf(chat_tasks', t)]
    /\ response' = NoResponse
    /\ UNCHANGED <<RAG_AVAILABLE, key_order, now, issued, submitted, raised, regVars, idxVars>>

\* retriever.invoke raised, api_server.py:648-656
RetrieveRaises(t, err) ==
    /\ wpc[t].at = "retrieve"
    /\ chat_tasks' = InnerExcept(chat_tasks, t, err)
    /\ wpc' = [wpc EXCEPT ![t].at = AfterExcept]
    /\ hist' = [hist EXCEPT ![t] = @ \o StatusOf(chat_tasks', t)]
    /\ raised' = [raised EXCEPT ![t] = <<err>>]
    /\ response' = NoResponse
    /\ UNCHANGED <<RAG_AVAILABLE, key_order, now, issued, submitted, regVars, idxVars>>

\* chain.invoke returned, api_server.py:617-646
GenerateReturns(t, result) ==
    /\ wpc[t].at = "generate"
    /\ IF t \in DOMAIN chat_tasks
       THEN chat_tasks' = [chat_tasks EXCEPT ![t] =
                Merge(@, CompletedFields(t, wpc[t].question, wpc[t].model,
                                         result, "done"))]
       ELSE chat_tasks' = InnerExcept(chat_tasks, t, KeyErrorStr(t))
    /\ wpc' = [wpc EXCEPT ![t].at = "done"]
    /\ hist' = [hist EXCEPT ![t] = @ \o StatusOf(chat_tasks', t)]
    /\ response' = NoResponse
    /\ UNCHANGED <<RAG_AVAILABLE, key_order, now, issued, submitted, raised, regVars, idxVars>>

\* chain.invoke raised, api_server.py:648-656
GenerateRaises(t, err) ==
    /\ wpc[t].at = "generate"
    /\ chat_tasks' = InnerExcept(chat_tasks, t, err)
    /\ wpc' = [wpc EXCEPT ![t].at = AfterExcept]
    /\ hist' = [hist EXCEPT ![t] = @ \o StatusOf(chat_tasks', t)]
    /\ raised' = [raised EXCEPT ![t] = <<err>>]
    /\ response' = NoResponse
    /\ UNCHANGED <<RAG_AVAILABLE, key_order, now, issued, submitted, regVars, idxVars>>

\* demo mode: asyncio.sleep(2) returned, api_server.py:659-705
SleepReturns(t) ==
    /\ wpc[t].at = "sleep"
    /\ IF t \in DOMAIN chat_tasks
       THEN chat_tasks' = [chat_tasks EXCEPT ![t] =
                Merge(@, CompletedFields(t, wpc[t].question, wpc[t].model,
                                         mock_answer(wpc[t].question), "demo"))]
       ELSE chat_tasks' = OuterExcept(chat_tasks, t, KeyErrorStr(t))
    /\ wpc' = [wpc EXCEPT ![t].at = "done"]
    /\ hist' = [hist EXCEPT ![t] = @ \o StatusOf(chat_tasks', t)]
    /\ response' = NoResponse
    /\ UNCHANGED <<RAG_AVAILABLE, key_order, now, issued, submitted, raised, regVars, idxVars>>

\* any step of the background worker of task t
WorkerStep(t) ==
    \/ WorkerStart(t)
    \/ RetrieveReturns(t)
    \/ \E err \in Errors : RetrieveRaises(t, err)
    \/ \E result \in Answers : GenerateReturns(t, result)
    \/ \E err \in Errors : GenerateRaises(t, err)
    \/ SleepReturns(t)

\* timedelta(hours=1) in clock ticks
Retention == RetentionHours * TicksPerHour

\* mutant of FinishedAt: only completed_at is looked at
FinishedAt_completedOnly(task_info) ==
    IF "completed_at" \in DOMAIN task_info THEN <<task_info.completed_at>>
    ELSE <<>>

\* task_info.get("completed_at") or task_info.get("failed_at"), api_server.py:728
FinishedAt(task_info) ==
    IF "completed_at" \in DOMAIN task_info THEN <<task_info.completed_at>>
    ELSE IF "failed_at" \in DOMAIN task_info THEN <<task_info.failed_at>>
    ELSE <<>>

\* mutant of Expired: the age of the task is taken from created_at, whatever
\* its status
Expired_byCreation(task_info) ==
    now - fromisoformat(task_info.created_at) > Retention

\* the eviction test of get_chat_task, api_server.py:727-732
Expired(task_info) ==
    /\ Get(task_info, "status", "") \in {"completed", "failed"}
    /\ FinishedAt(task_info) # <<>>
    /\ now - fromisoformat(FinishedAt(task_info)[1]) > Retention

\* GET /api/v1/chats_openai/task/{task_id}, api_server.py:717-742
get_chat_task(task_id) ==
    /\ IF task_id \notin DOMAIN chat_tasks
       THEN /\ response' = HTTPException("get_chat_task", 404,
                                         [task_id |-> task_id, why |-> "absent"])
            /\ chat_tasks' = chat_tasks
       ELSE IF Expired(chat_tasks[task_id])
       THEN /\ chat_tasks' = Del(chat_tasks, task_id)
            /\ response' = HTTPException("get_chat_task", 404,
                                         [task_id |-> task_id, why |-> "expired"])
       ELSE /\ response' = [op |-> "get_chat_task", code |-> 200,
                            detail |-> [task_id |-> task_id, why |-> "found"],
                            body |-> chat_tasks[task_id]]
            /\ chat_tasks' = chat_tasks
    /\ UNCHANGED <<RAG_AVAILABLE, key_order, now, issued, wpc, hist, submitted, raised,
                   regVars, idxVars>>

\* time passes
Tick ==
    /\ now < MaxTime
    /\ now' = now + 1
    /\ response' = NoResponse
    /\ UNCHANGED <<RAG_AVAILABLE, key_order, chatVars, regVars, idxVars>>

----------------------------------------------------------------------------
(* DocumentProcessor, rag_doc_vect_embedding_csv.py:69-117 *)

\* DocumentProcessor.__init__ defaults, rag_doc_vect_embedding_csv.py:70
DefaultChunkSize == 500
DefaultChunkOverlap == 50

DefaultProcessor ==
    [chunk_size |-> DefaultChunkSize, chunk_overlap |-> DefaultChunkOverlap]

\* str.strip() on a text
RECURSIVE LStrip(_)
LStrip(s) ==
    IF s # <<>> /\ Head(s) \in Whitespace THEN LStrip(Tail(s)) ELSE s

RECURSIVE RStrip(_)
RStrip(s) ==
    IF s # <<>> /\ s[Len(s)] \in Whitespace
    THEN RStrip(SubSeq(s, 1, Len(s) - 1)) ELSE s

Strip(s) == RStrip(LStrip(s))

\* the separators handed to RecursiveCharacterTextSplitter, in the order of
\* rag_doc_vect_embedding_csv.py:79; the third is the ideographic full stop
Separators == <<"\n\n", "\n", "U+3002", ".", " ", "">>

\* a separator as a text
SeparatorText(sep) ==
    IF sep = "" THEN <<>>
    ELSE IF sep = "\n\n" THEN <<"\n", "\n">>
    ELSE <<sep>>

\* re.search(re.escape(sep), text)
OccursAt(text, sep, i) ==
    /\ i + Len(sep) - 1 <= Len(text)
    /\ SubSeq(text, i, i + Len(sep) - 1) = sep

Occurs(text, sep) == \E i \in 1..Len(text) : OccursAt(text, sep, i)

\* re.split(f"({sep})", text) with each separator put before the text that
\* follows it (keep_separator=True): the piece begun at start, scanned from i
RECURSIVE Pieces(_, _, _, _)
Pieces(text, sep, i, start) ==
    IF i > Len(text) THEN <<SubSeq(text, start, Len(text))>>
    ELSE IF OccursAt(text, sep, i)
    THEN <<SubSeq(text, start, i - 1)>>
            \o Pieces(text, sep, i + Len(sep), i)
    ELSE Pieces(text, sep, i + 1, start)

\* _split_text_with_regex: the empty separator splits between any two
\* characters; empty pieces are dropped
SplitTextWithRegex(text, sep) ==
    IF sep = <<>> THEN [i \in 1..Len(text) |-> <<text[i]>>]
    ELSE SelectSeq(Pieces(text, sep, 1, 1), LAMBDA piece : piece # <<>>)

\* "".join(docs)
RECURSIVE Concat(_)
Concat(pieces) ==
    IF pieces = <<>> THEN <<>> ELSE Head(pieces) \o Concat(Tail(pieces))

\* _join_docs: the pieces joined and stripped; a blank text is no chunk
JoinDocs(current_doc) ==
    LET joined == Strip(Concat(current_doc)) IN
    IF joined = <<>> THEN <<>> ELSE <<joined>>

\* the while loop of _merge_splits: pieces are dropped from the front until
\* what is left is within the overlap and leaves room for the next piece
RECURSIVE DropFront(_, _, _, _)
DropFront(current_doc, next_len, chunk_size, chunk_overlap) ==
    LET total == Len(Concat(current_doc)) IN
    IF /\ current_doc # <<>>
       /\ \/ total > chunk_overlap
          \/ (total + next_len > chunk_size /\ total > 0)
    THEN DropFront(Tail(current_doc), next_len, chunk_size, chunk_overlap)
    ELSE current_doc

\* _merge_splits with the separator "": pieces are gathered into chunks of
\* at most chunk_size characters
RECURSIVE MergeLoop(_, _, _, _, _)
MergeLoop(splits, docs, current_doc, chunk_size, chunk_overlap) ==
    IF splits = <<>> THEN docs \o JoinDocs(current_doc)
    ELSE LET d == Head(splits)
             full == /\ Len(Concat(current_doc)) + Len(d) > chunk_size
                     /\ current_doc # <<>>
         IN  MergeLoop(Tail(splits),
                       IF full THEN docs \o JoinDocs(current_doc) ELSE docs,
                       Append(IF full
                              THEN DropFront(current_doc, Len(d), chunk_size,
                                             chunk_overlap)
                              ELSE current_doc,
                              d),
                       chunk_size, chunk_overlap)

MergeSplits(splits, chunk_size, chunk_overlap) ==
    MergeLoop(splits, <<>>, <<>>, chunk_size, chunk_overlap)

\* the place in the list of the separator _split_text splits at: the first
\* that is empty or occurs in the text, the last when there is none
FirstSeparator(text, separators) ==
    LET found == {i \in 1..Len(separators) :
                     \/ separators[i] = ""
                     \/ Occurs(text, SeparatorText(separators[i]))}
    IN  IF found = {} THEN Len(separators)
        ELSE CHOOSE i \in found : \A j \in found : i <= j

\* the separators left for the pieces that are too long
NewSeparators(separators, first) ==
    IF separators[first] = "" THEN <<>>
    ELSE SubSeq(separators, first + 1, Len(separators))

\* the chunks of the pieces gathered so far
Merged(good_splits, chunk_size, chunk_overlap) ==
    IF good_splits = <<>> THEN <<>>
    ELSE MergeSplits(good_splits, chunk_size, chunk_overlap)

\* RecursiveCharacterTextSplitter._split_text: the text is split at the first
\* separator of the list that occurs in it; pieces shorter than chunk_size
\* are merged, a longer piece is split again at the separators that follow
RECURSIVE SplitTextRec(_, _, _, _)
RECURSIVE SplitLoop(_, _, _, _, _, _)
RECURSIVE SplitLong(_, _, _, _, _)
RECURSIVE SplitAt(_, _, _, _, _)
SplitLoop(splits, final_chunks, good_splits, new_separators, chunk_size, chunk_overlap) ==
    IF splits # <<>> /\ Len(Head(splits)) < chunk_size
    THEN SplitLoop(Tail(splits), final_chunks, Append(good_splits, Head(splits)),
                   new_separators, chunk_size, chunk_overlap)
    ELSE SplitLong(splits, final_chunks \o Merged(good_splits, chunk_size, chunk_overlap),
                   new_separators, chunk_size, chunk_overlap)

\* the piece at the head of splits is chunk_size long or longer, or there is
\* no piece left
SplitLong(splits, final_chunks, new_separators, chunk_size, chunk_overlap) ==
    IF splits = <<>> THEN final_chunks
    ELSE SplitLoop(Tail(splits),
                   final_chunks
                      \o (IF new_separators = <<>> THEN <<Head(splits)>>
                          ELSE SplitTextRec(Head(splits), new_separators,
                                            chunk_size, chunk_overlap)),
                   <<>>, new_separators, chunk_size, chunk_overlap)

SplitAt(text, separators, first, chunk_size, chunk_overlap) ==
    SplitLoop(SplitTextWithRegex(text, SeparatorText(separators[first])),
              <<>>, <<>>, NewSeparators(separators, first),
              chunk_size, chunk_overlap)

SplitTextRec(text, separators, chunk_size, chunk_overlap) ==
    SplitAt(text, separators, FirstSeparator(text, separators),
            chunk_size, chunk_overlap)

\* text_splitter.split_documents([doc]) on the page_content,
\* rag_doc_vect_embedding_csv.py:76-83
SplitText(text, chunk_size, chunk_overlap) ==
    SplitTextRec(text, Separators, chunk_size, chunk_overlap)

\* mutant of FallbackId: the fallback id counts the entries already stored
FallbackId_counting(n) ==
    "doc_" \o ToString(n + Cardinality(DOMAIN vector_index))

\* f'doc_{len(chunked_docs)}', rag_doc_vect_embedding_csv.py:85
FallbackId(n) == "doc_" \o ToString(n)

\* doc.metadata.get('id', f'doc_{len(chunked_docs)}'),
\* rag_doc_vect_embedding_csv.py:85
OriginalId(doc, n) == Get(doc.metadata, "id", FallbackId(n))

\* f"{original_id}_{i}", rag_doc_vect_embedding_csv.py:87
ChunkId(original_id, i) == original_id \o "_" \o ToString(i)

\* the chunks of one document, given the number of chunks made before it,
\* rag_doc_vect_embedding_csv.py:83-90; enumerate counts from 0
ChunksOf(doc, n, chunk_size, chunk_overlap) ==
    LET pieces == SplitText(doc.page_content, chunk_size, chunk_overlap) IN
    [i \in 1..Len(pieces) |->
        [page_content |-> pieces[i],
         metadata |-> Merge(doc.metadata,
                            [chunk_id |-> ChunkId(OriginalId(doc, n), i - 1),
                             chunk_index |-> i - 1,
                             original_id |-> OriginalId(doc, n)])]]

\* DocumentProcessor.chunk_documents, rag_doc_vect_embedding_csv.py:74-92:
\* chunked_docs grows by each document's chunks in turn
RECURSIVE ChunkLoop(_, _, _, _)
ChunkLoop(documents, chunked_docs, chunk_size, chunk_overlap) ==
    IF documents = <<>> THEN chunked_docs
    ELSE ChunkLoop(Tail(documents),
                   chunked_docs \o ChunksOf(Head(documents), Len(chunked_docs),
                                            chunk_size, chunk_overlap),
                   chunk_size, chunk_overlap)

chunk_documents(documents, chunk_size, chunk_overlap) ==
    ChunkLoop(documents, <<>>, chunk_size, chunk_overlap)

\* new_ids = [doc.metadata["chunk_id"] for doc in chunked_documents]
NewIds(chunked_documents) ==
    [i \in 1..Len(chunked_documents) |-> chunked_documents[i].metadata.chunk_id]

Range(seq) == {seq[i] : i \in 1..Len(seq)}

\* vector_store.delete(ids=new_ids), rag_doc_vect_embedding_csv.py:102
StoreDelete(index, ids) ==
    [k \in (DOMAIN index) \ Range(ids) |-> index[k]]

\* mutant of StoreAdd: an id the index already holds keeps its old entry
StoreAdd_keepsOld(index, chunked_documents) ==
    LET ids == NewIds(chunked_documents) IN
    [k \in (DOMAIN index) \cup Range(ids) |->
        IF k \in DOMAIN index
        THEN index[k]
        ELSE chunked_documents[CHOOSE i \in 1..Len(ids) : ids[i] = k]]

\* vector_store.add_documents(documents, ids), rag_doc_vect_embedding_csv.py:
\* 108-111: Chroma upserts each entry under its id
StoreAdd(index, chunked_documents) ==
    LET ids == NewIds(chunked_documents) IN
    [k \in (DOMAIN index) \cup Range(ids) |->
        IF k \in Range(ids)
        THEN chunked_documents[CHOOSE i \in 1..Len(ids) : ids[i] = k]
        ELSE index[k]]

\* Chroma refuses a batch that names one id twice
HasDuplicates(ids) ==
    \E i, j \in 1..Len(ids) : i # j /\ ids[i] = ids[j]

\* RecursiveCharacterTextSplitter(chunk_size=..., chunk_overlap=...),
\* rag_doc_vect_embedding_csv.py:76-80: the constructor raises ValueError when
\* the overlap is larger than the chunk size, and only then;
\* DocumentProcessor.__init__ (lines 70-72) checks nothing
SplitterRaises(chunk_size, chunk_overlap) == chunk_overlap > chunk_size

\* the element of a one-element set: Only({e(x) : x \in {v}}) is
\* LET x == v IN e(x), with v computed once however often e names x
Only(S) == CHOOSE x \in S : TRUE

\* DocumentProcessor.process_and_store, rag_doc_vect_embedding_csv.py:94-117.
\* delete_ok: whether vector_store.delete returned (else it raised and the
\* exception was swallowed, lines 104-105); add_ok: whether the embedding
\* service and the store accepted the batch (else add_documents raised and the
\* exception is raised on, lines 115-117).
\* The value is the index left behind and what the call returned.
process_and_store(index, documents, processor, delete_ok, add_ok) ==
    IF SplitterRaises(processor.chunk_size, processor.chunk_overlap)
    THEN [index |-> index,
          raised |-> TRUE,
          returned |-> 0,
          ids |-> <<>>]
    ELSE Only({
        LET new_ids == NewIds(chunked_documents)
            cleaned == IF delete_ok THEN StoreDelete(index, new_ids)
                       ELSE index
        IN  IF add_ok /\ ~HasDuplicates(new_ids)
            THEN [index |-> StoreAdd(cleaned, chunked_documents),
                  raised |-> FALSE,
                  returned |-> Len(chunked_documents),
                  ids |-> new_ids]
            ELSE [index |-> cleaned,
                  raised |-> TRUE,
                  returned |-> 0,
                  ids |-> new_ids] :
        chunked_documents \in
            {chunk_documents(documents, processor.chunk_size,
                             processor.chunk_overlap)}})

----------------------------------------------------------------------------
(* Knowledge-base and document registry, api_server.py:74-187, 261-549 *)

MaxUploads == 2
MaxRegistryUploads == 1
InitialCsvRows == 2
MaxItems == 12

\* the names of the knowledge bases and of the files a client fills the
\* registries with before it pages through them: one file name in two has
\* an "A" in it
PageKbName(i) == "kb-" \o ToString(i)
PageFileName(i) ==
    (IF i % 2 = 0 THEN "A" ELSE "b") \o ToString(i) \o ".pdf"
PageFilePaths ==
    {PageFileName(i) : i \in 1..MaxItems}
        \cup {"./data/" \o PageFileName(i) : i \in 1..MaxItems}

\* the name of the knowledge base made at startup, api_server.py:91 (eight
\* Chinese characters, written here in ASCII)
DefaultKbName == "default-kb-name"

\* hashlib.md5(s.encode()).hexdigest()[:8] of the names of the model
Md5Hex8(s) ==
    CASE s = "manuals" -> "1a9725a1"
      [] s = DefaultKbName -> "8027cfc0"
      [] s = "faq"     -> "da75cd65"
      [] s = "a.csv"   -> "83320756"
      [] s = "b.txt"   -> "ce506ace"
      [] s = "c.pdf"   -> "936e02fe"
      [] s = "x.exe"   -> "f0c9c8ec"
      [] s = "kb-1" -> "062858e5"
      [] s = "kb-2" -> "3c3a916d"
      [] s = "kb-3" -> "b33d37c5"
      [] s = "kb-4" -> "b4a49170"
      [] s = "kb-5" -> "2f429594"
      [] s = "kb-6" -> "b0df6027"
      [] s = "kb-7" -> "a922eb8f"
      [] s = "kb-8" -> "ae299e40"
      [] s = "kb-9" -> "82909612"
      [] s = "kb-10" -> "55a7272f"
      [] s = "kb-11" -> "dc32cfd6"
      [] s = "kb-12" -> "516a519b"
      [] s = "kb-13" -> "21122b63"
      [] s = "kb-14" -> "b7cac7d4"
      [] s = "kb-15" -> "e661a3f0"
      [] s = "kb-16" -> "56595bc0"
      [] s = "kb-17" -> "f5fee47c"
      [] s = "kb-18" -> "69bbc596"
      [] s = "kb-19" -> "baa5dee6"
      [] s = "kb-20" -> "34db4640"
      [] s = "kb-21" -> "cf038316"
      [] s = "kb-22" -> "868b5300"
      [] s = "kb-23" -> "e23aa375"
      [] s = "kb-24" -> "15994758"
      [] s = "kb-25" -> "9251bb1f"
      [] s = "kb-26" -> "8e562e89"
      [] s = "kb-27" -> "6b53a78f"
      [] s = "kb-28" -> "ce6adcb4"
      [] s = "kb-29" -> "e292e881"
      [] s = "kb-30" -> "73cee6c3"
      [] s = "b1.pdf" -> "cf1421c5"
      [] s = "A2.pdf" -> "cf84e603"
      [] s = "b3.pdf" -> "856cfdd1"
      [] s = "A4.pdf" -> "f7db9f47"
      [] s = "b5.pdf" -> "6e63ca78"
      [] s = "A6.pdf" -> "947d6ac1"
      [] s = "b7.pdf" -> "e854f6da"
      [] s = "A8.pdf" -> "0b96b0eb"
      [] s = "b9.pdf" -> "015d7c26"
      [] s = "A10.pdf" -> "4120fdf1"
      [] s = "b11.pdf" -> "0d570ef8"
      [] s = "A12.pdf" -> "5db8fab0"
      [] s = "b13.pdf" -> "fd3a0aea"
      [] s = "A14.pdf" -> "17c2a616"
      [] s = "b15.pdf" -> "8da51ebc"
      [] s = "A16.pdf" -> "4b16dd8d"
      [] s = "b17.pdf" -> "efd768a8"
      [] s = "A18.pdf" -> "1b7b2f49"
      [] s = "b19.pdf" -> "14696c84"
      [] s = "A20.pdf" -> "c875d5bb"
      [] s = "b21.pdf" -> "cf9a9afd"
      [] s = "A22.pdf" -> "1c9e1616"
      [] s = "b23.pdf" -> "7645debe"
      [] s = "A24.pdf" -> "033280f0"
      [] s = "b25.pdf" -> "1b0d9c8b"
      [] s = "A26.pdf" -> "ae05c4d5"
      [] s = "b27.pdf" -> "1194f56b"
      [] s = "A28.pdf" -> "019bc880"
      [] s = "b29.pdf" -> "c8875599"
      [] s = "A30.pdf" -> "d2eb0f70"

\* api_server.py:122-124
generate_kb_id(name) == "kb_" \o Md5Hex8(name)

\* api_server.py:126-128
generate_doc_id(filename) == "doc_" \o Md5Hex8(filename)

\* Path(name).suffix.lower() of the file names of the model
Suffix(filename) ==
    CASE filename \in {"a.csv", "./data/a.csv"} -> ".csv"
      [] filename \in {"b.txt", "./data/b.txt"} -> ".txt"
      [] filename \in {"c.pdf", "./data/c.pdf"} -> ".pdf"
      [] filename \in {"x.exe", "./data/x.exe"} -> ".exe"
      [] filename \in PageFilePaths -> ".pdf"

\* file_extension[1:]
DropDot(ext) ==
    CASE ext = ".csv" -> "csv" [] ext = ".txt" -> "txt"
      [] ext = ".pdf" -> "pdf" [] ext = ".exe" -> "exe"

\* mutant of allowed_extensions: executables are accepted too
allowed_extensions_withExe ==
    {".pdf", ".docx", ".txt", ".csv", ".xlsx", ".exe"}

\* api_server.py:396
allowed_extensions == {".pdf", ".docx", ".txt", ".csv", ".xlsx"}

\* api_server.py:408
DataPath(filename) == "./data/" \o filename

\* a cell pandas read as missing
NaN == <<"N", "a", "N">>
notna(v) == v # NaN

\* CSV files: the data frame pd.read_csv makes of them, its columns in the
\* order of the header line (df.columns) and one record of cells per row.
\* The first has the columns of the repository's own csv
\* (rag_doc_vect_embedding_csv.py:45): a row with a title and a description,
\* a row whose cells are all empty and a row with a value in the last column
\* alone.  The second has no Title column and no row with any content.
CsvMixed ==
    [kind |-> "csv", bytes |-> 42,
     columns |-> <<"Title", "desc", "Rating", "Rating1">>,
     rows |-> <<[Title |-> <<"t">>, desc |-> <<"d">>, Rating |-> NaN,
                 Rating1 |-> NaN],
                [Title |-> NaN, desc |-> NaN, Rating |-> NaN,
                 Rating1 |-> NaN],
                [Title |-> NaN, desc |-> NaN, Rating |-> NaN,
                 Rating1 |-> <<"x", "1">>]>>]
CsvBlank ==
    [kind |-> "csv", bytes |-> 14,
     columns |-> <<"desc", "Rating">>,
     rows |-> <<[desc |-> NaN, Rating |-> NaN]>>]
TxtShort == [kind |-> "txt", bytes |-> 2, text |-> <<"h", "i">>]
PdfBytes == [kind |-> "bin", bytes |-> 9]

\* what a client may upload
UploadFiles ==
    {[filename |-> "a.csv", content |-> CsvMixed],
     [filename |-> "a.csv", content |-> CsvBlank],
     [filename |-> "b.txt", content |-> TxtShort],
     [filename |-> "c.pdf", content |-> PdfBytes],
     [filename |-> "x.exe", content |-> PdfBytes]}

\* the names a client gives to create_dataset: the one the default knowledge
\* base already bears
KbNames == {DefaultKbName}

\* dataset ids a client may name: those of knowledge bases that exist or may
\* come to exist, and one of none
DatasetIds == {"default_kb", "kb_none"} \cup {generate_kb_id(n) : n \in KbNames}

DocIds == {"csv_data"} \cup {generate_doc_id(f.filename) : f \in UploadFiles}

\* the id lists a client may hand to delete_documents
DocIdLists ==
    {<<"csv_data", generate_doc_id("a.csv")>>,
     <<generate_doc_id("b.txt"), generate_doc_id("b.txt")>>,
     <<generate_doc_id("c.pdf")>>}

\* mutant of AddTo: the counter is written, not added to
AddTo_overwrite(kbs, kb_id, field, n) ==
    [kbs EXCEPT ![kb_id] = Put(@, field, n)]

\* knowledge_bases[kb_id][field] += n
AddTo(kbs, kb_id, field, n) ==
    [kbs EXCEPT ![kb_id] = Put(@, field, @[field] + n)]

\* the keys of the registries after initialize_system
InitialOrder ==
    [knowledge_bases |-> IF RAG_AVAILABLE THEN <<"default_kb">> ELSE <<>>,
     documents_storage |-> IF RAG_AVAILABLE THEN <<"csv_data">> ELSE <<>>]

\* initialize_system, api_server.py:81-119
InitialKnowledgeBases ==
    IF RAG_AVAILABLE
    THEN [k \in {"default_kb"} |->
            [id |-> "default_kb", name |-> DefaultKbName,
             description |-> "csv", chunk_method |-> "naive",
             chunk_size |-> 512, chunk_overlap |-> 50,
             document_count |-> 1, chunk_count |-> InitialCsvRows,
             status |-> "active", created_at |-> isoformat(now)]]
    ELSE EmptyDict

InitialDocuments ==
    IF RAG_AVAILABLE
    THEN [k \in {"csv_data"} |->
            [id |-> "csv_data", name |-> "dev_csv(1).csv",
             kb_id |-> "default_kb", size |-> [records |-> InitialCsvRows],
             status |-> "completed", chunk_num |-> InitialCsvRows,
             created_at |-> isoformat(now), type |-> "csv"]]
    ELSE EmptyDict

\* the record of a new knowledge base, api_server.py:276-287
new_kb(kb_id, name) ==
    [id |-> kb_id, name |-> name, description |-> "",
     chunk_method |-> "naive", chunk_size |-> 512,
     chunk_overlap |-> 50, document_count |-> 0,
     chunk_count |-> 0, status |-> "active",
     created_at |-> isoformat(now)]

\* POST /api/v1/datasets, api_server.py:261-303
create_dataset(name) ==
    LET kb_id == generate_kb_id(name) IN
    /\ IF kb_id \in DOMAIN knowledge_bases
       THEN /\ response' = [op |-> "create_dataset", code |-> 400]
            /\ knowledge_bases' = knowledge_bases
       ELSE /\ knowledge_bases' = Put(knowledge_bases, kb_id, new_kb(kb_id, name))
            /\ response' = [op |-> "create_dataset", code |-> 0,
                            data |-> knowledge_bases'[kb_id]]
    /\ UNCHANGED <<RAG_AVAILABLE, now, chatVars, documents_storage, files,
                   uploads, accepted, jobs, idxVars>>
    /\ OrderFollows

\* mutant of delete_dataset: the knowledge base goes, its documents stay
delete_dataset_noCascade(dataset_id) ==
    /\ IF dataset_id \notin DOMAIN knowledge_bases
       THEN /\ response' = [op |-> "delete_dataset", code |-> 404]
            /\ UNCHANGED knowledge_bases
       ELSE /\ knowledge_bases' = Del(knowledge_bases, dataset_id)
            /\ response' = [op |-> "delete_dataset", code |-> 0]
    /\ UNCHANGED <<RAG_AVAILABLE, now, chatVars, documents_storage, files,
                   uploads, accepted, jobs, idxVars>>
    /\ OrderFollows

\* mutant of delete_dataset: the chunks committed for the knowledge base are
\* retracted from the vector index
delete_dataset_retracts(dataset_id) ==
    /\ IF dataset_id \notin DOMAIN knowledge_bases
       THEN /\ response' = [op |-> "delete_dataset", code |-> 404]
            /\ UNCHANGED <<knowledge_bases, documents_storage, vector_index>>
       ELSE LET docs_to_delete ==
                    {doc_id \in DOMAIN documents_storage :
                        Get(documents_storage[doc_id], "kb_id", "") = dataset_id}
                kept == {id \in DOMAIN vector_index :
                            Get(vector_index[id].metadata, "kb_id", "")
                                # dataset_id}
            IN  /\ documents_storage' =
                        [d \in (DOMAIN documents_storage) \ docs_to_delete |->
                            documents_storage[d]]
                /\ knowledge_bases' = Del(knowledge_bases, dataset_id)
                /\ vector_index' = [id \in kept |-> vector_index[id]]
                /\ response' = [op |-> "delete_dataset", code |-> 0]
    /\ UNCHANGED <<RAG_AVAILABLE, now, chatVars, files, uploads, accepted,
                   jobs, store_log>>
    /\ OrderFollows

\* DELETE /api/v1/datasets/{dataset_id}, api_server.py:305-340
delete_dataset(dataset_id) ==
    /\ IF dataset_id \notin DOMAIN knowledge_bases
       THEN /\ response' = [op |-> "delete_dataset", code |-> 404]
            /\ UNCHANGED <<knowledge_bases, documents_storage>>
       ELSE LET docs_to_delete ==
                    {doc_id \in DOMAIN documents_storage :
                        Get(documents_storage[doc_id], "kb_id", "") = dataset_id}
            IN  /\ documents_storage' =
                        [d \in (DOMAIN documents_storage) \ docs_to_delete |->
                            documents_storage[d]]
                /\ knowledge_bases' = Del(knowledge_bases, dataset_id)
                /\ response' = [op |-> "delete_dataset", code |-> 0]
    /\ UNCHANGED <<RAG_AVAILABLE, now, chatVars, files, uploads, accepted,
                   jobs, idxVars>>
    /\ OrderFollows

\* upload_document up to await file.read(), api_server.py:384-410: the
\* checks are made, then the coroutine is suspended while the body is read
upload_document_begin(dataset_id, file) ==
    /\ accepted < MaxUploads
    /\ IF dataset_id \notin DOMAIN knowledge_bases
       THEN /\ response' = [op |-> "upload_document", code |-> 404]
            /\ UNCHANGED <<uploads, accepted>>
       ELSE IF Suffix(file.filename) \notin allowed_extensions
       THEN /\ response' = [op |-> "upload_document", code |-> 400]
            /\ UNCHANGED <<uploads, accepted>>
       ELSE /\ uploads' = uploads \cup
                    {[n |-> accepted + 1, dataset_id |-> dataset_id,
                      file |-> file]}
            /\ accepted' = accepted + 1
            /\ response' = NoResponse
    /\ UNCHANGED <<RAG_AVAILABLE, key_order, now, chatVars, knowledge_bases,
                   documents_storage, files, jobs, idxVars>>

\* the Document Record of an upload, api_server.py:415-426
DocInfo(dataset_id, file) ==
    [id |-> generate_doc_id(file.filename),
     name |-> file.filename,
     kb_id |-> dataset_id,
     file_path |-> DataPath(file.filename),
     size |-> [bytes |-> file.content.bytes],
     status |-> "processing",
     chunk_num |-> 0,
     created_at |-> isoformat(now),
     type |-> DropDot(Suffix(file.filename))]

\* upload_document from the return of file.read() on, api_server.py:410-450.
\* The record is stored and the worker added before the counter is touched;
\* if the knowledge base is gone by then, line 435 raises KeyError and the
\* handler answers 500.
upload_document_finish(u) ==
    LET doc_id == generate_doc_id(u.file.filename)
        file_path == DataPath(u.file.filename)
    IN
    /\ u \in uploads
    /\ uploads' = uploads \ {u}
    /\ files' = Put(files, file_path, u.file.content)
    /\ documents_storage' =
            Put(documents_storage, doc_id, DocInfo(u.dataset_id, u.file))
    /\ jobs' = IF RAG_AVAILABLE
               THEN Append(jobs, [doc_id |-> doc_id, file_path |-> file_path,
                                  kb_id |-> u.dataset_id])
               ELSE jobs
    /\ IF u.dataset_id \in DOMAIN knowledge_bases
       THEN /\ knowledge_bases' =
                    AddTo(knowledge_bases, u.dataset_id, "document_count", 1)
            /\ response' = [op |-> "upload_document", code |-> 0,
                            data |-> DocInfo(u.dataset_id, u.file)]
       ELSE /\ knowledge_bases' = knowledge_bases
            /\ response' = [op |-> "upload_document", code |-> 500]
    /\ UNCHANGED <<RAG_AVAILABLE, now, chatVars, accepted, idxVars>>
    /\ OrderFollows

\* the labels process_csv_to_vector_store writes before a cell; a Chinese
\* character is one element, written as its code point
TitleLabel == <<"U+6807", "U+9898", ":", " ">>
DescLabel  == <<"U+63CF", "U+8FF0", ":", " ">>

\* the characters of a column name, as f"{col}" writes them
ColumnText(col) ==
    CASE col = "Title" -> <<"T", "i", "t", "l", "e">>
      [] col = "desc" -> <<"d", "e", "s", "c">>
      [] col = "Rating" -> <<"R", "a", "t", "i", "n", "g">>
      [] col = "Rating1" -> <<"R", "a", "t", "i", "n", "g", "1">>

\* api_server.py:155-157: one line "<col>: <cell>" for every column from
\* the k-th on that is neither Title nor desc and whose cell is not missing,
\* in the order of df.columns
RECURSIVE OtherColumns(_, _, _)
OtherColumns(row, columns, k) ==
    IF k > Len(columns) THEN <<>>
    ELSE (IF columns[k] \notin {"Title", "desc"} /\ notna(row[columns[k]])
          THEN ColumnText(columns[k]) \o <<":", " ">> \o row[columns[k]]
               \o <<"\n">>
          ELSE <<>>)
         \o OtherColumns(row, columns, k + 1)

\* the content of one CSV row of a frame with these columns,
\* api_server.py:148-157
RowContent(row, columns) ==
    (IF "Title" \in DOMAIN row /\ notna(row["Title"])
     THEN TitleLabel \o row["Title"] \o <<"\n">> ELSE <<>>)
    \o (IF "desc" \in DOMAIN row /\ notna(row["desc"])
        THEN DescLabel \o row["desc"] \o <<"\n">> ELSE <<>>)
    \o OtherColumns(row, columns, 1)

\* mutant of RowDocuments: one row without content empties the whole list
RECURSIVE RowDocuments_abortsOnBlank(_, _, _, _)
RowDocuments_abortsOnBlank(df, i, csv_path, kb_id) ==
    IF \/ i > Len(df.rows)
       \/ \E j \in i..Len(df.rows) :
             Strip(RowContent(df.rows[j], df.columns)) = <<>>
    THEN <<>>
    ELSE <<[page_content |-> Strip(RowContent(df.rows[i], df.columns)),
            metadata |-> [source |-> csv_path, row_id |-> i - 1,
                          kb_id |-> kb_id, type |-> "csv_row"]]>>
         \o RowDocuments_abortsOnBlank(df, i + 1, csv_path, kb_id)

\* the Documents of the rows i.. of the data frame df, api_server.py:145-174
RECURSIVE RowDocuments(_, _, _, _)
RowDocuments(df, i, csv_path, kb_id) ==
    IF i > Len(df.rows) THEN <<>>
    ELSE (IF Strip(RowContent(df.rows[i], df.columns)) # <<>>
          THEN <<[page_content |-> Strip(RowContent(df.rows[i], df.columns)),
                  metadata |-> [source |-> csv_path, row_id |-> i - 1,
                                kb_id |-> kb_id, type |-> "csv_row"]]>>
          ELSE <<>>)
         \o RowDocuments(df, i + 1, csv_path, kb_id)

\* pd.read_csv(path) succeeds
Readable(fs, path, kind) == path \in DOMAIN fs /\ fs[path].kind = kind

\* api_server.py:130-187: the value returned and the index left behind
process_csv_to_vector_store(index, fs, csv_path, kb_id, delete_ok, add_ok) ==
    IF ~RAG_AVAILABLE \/ ~Readable(fs, csv_path, "csv")
    THEN [success |-> FALSE, index |-> index]
    ELSE Only({
        IF documents = <<>>
        THEN [success |-> FALSE, index |-> index]
        ELSE Only({[success |-> ~out.raised, index |-> out.index] :
                   out \in {process_and_store(index, documents,
                                DefaultProcessor, delete_ok, add_ok)}}) :
        documents \in {RowDocuments(fs[csv_path], 1, csv_path, kb_id)}})

\* documents_storage[doc_id][field] = v
SetDoc(docs, doc_id, field, v) == [docs EXCEPT ![doc_id] = Put(@, field, v)]

\* the except clause of process_uploaded_document, api_server.py:506-509
WorkerExcept(docs, doc_id) ==
    IF doc_id \in DOMAIN docs THEN SetDoc(docs, doc_id, "status", "failed")
    ELSE docs

\* the three assignments that end a successful branch, api_server.py:466-470,
\* 494-496, 500-502: a missing record or knowledge base raises KeyError at
\* the assignment that needs it, and the except clause takes over
WorkerCommit(docs, kbs, doc_id, kb_id, n) ==
    IF doc_id \notin DOMAIN docs
    THEN [docs |-> docs, kbs |-> kbs]
    ELSE LET done == SetDoc(SetDoc(docs, doc_id, "chunk_num", n),
                            doc_id, "status", "completed")
         IN  IF kb_id \notin DOMAIN kbs
             THEN [docs |-> WorkerExcept(done, doc_id), kbs |-> kbs]
             ELSE [docs |-> done, kbs |-> AddTo(kbs, kb_id, "chunk_count", n)]

\* api_server.py:493
EstimateChars == 500

\* process_uploaded_document(doc_id, file_path, kb_id), api_server.py:452-509:
\* the registries and the index it leaves behind
process_uploaded_document(job, delete_ok, add_ok) ==
    LET docs == documents_storage
        kbs == knowledge_bases
        file_extension == Suffix(job.file_path)
        unchanged == [docs |-> docs, kbs |-> kbs]
        failed == [docs |-> WorkerExcept(docs, job.doc_id), kbs |-> kbs]
    IN
    IF file_extension = ".csv"
    THEN Only({
        IF csv.success
        THEN WorkerCommit(docs, kbs, job.doc_id, job.kb_id,
                          Len(files[job.file_path].rows))
             @@ [index |-> csv.index]
        ELSE failed @@ [index |-> csv.index] :
        csv \in {process_csv_to_vector_store(vector_index, files,
                    job.file_path, job.kb_id, delete_ok, add_ok)}})
    ELSE IF file_extension = ".txt"
    THEN IF ~Readable(files, job.file_path, "txt")
         THEN failed @@ [index |-> vector_index]
         ELSE LET content == files[job.file_path].text
                  document == [page_content |-> content,
                               metadata |-> [source |-> job.file_path,
                                             kb_id |-> job.kb_id,
                                             type |-> "text"]]
              IN  Only({
                  IF out.raised
                  THEN failed @@ [index |-> out.index]
                  ELSE WorkerCommit(docs, kbs, job.doc_id, job.kb_id,
                                    (Len(content) \div EstimateChars) + 1)
                       @@ [index |-> out.index] :
                  out \in {process_and_store(vector_index, <<document>>,
                              DefaultProcessor, delete_ok, add_ok)}})
    ELSE WorkerCommit(docs, kbs, job.doc_id, job.kb_id, 1)
         @@ [index |-> vector_index]

\* one background task runs to its end
IngestionWorker(i, delete_ok, add_ok) ==
    /\ i \in 1..Len(jobs)
    /\ jobs' = SubSeq(jobs, 1, i - 1) \o SubSeq(jobs, i + 1, Len(jobs))
    /\ response' = NoResponse
    /\ UNCHANGED <<RAG_AVAILABLE, key_order, now, chatVars, files, uploads, accepted,
                   store_log>>
    /\ \E out \in {process_uploaded_document(jobs[i], delete_ok, add_ok)} :
        /\ documents_storage' = out.docs
        /\ knowledge_bases' = out.kbs
        /\ vector_index' = out.index

\* mutant of DeleteLoop: the owner of a record is not looked at
RECURSIVE DeleteLoop_anyOwner(_, _, _)
DeleteLoop_anyOwner(document_ids, dataset_id, st) ==
    IF document_ids = <<>> THEN st
    ELSE LET doc_id == Head(document_ids) IN
         IF doc_id \in DOMAIN st.docs
         THEN LET doc == st.docs[doc_id]
                  chunk_count == Get(doc, "chunk_num", 0)
              IN  DeleteLoop_anyOwner(Tail(document_ids), dataset_id,
                    [docs |-> Del(st.docs, doc_id),
                     kbs |-> AddTo(AddTo(st.kbs, dataset_id, "chunk_count",
                                         0 - chunk_count),
                                   dataset_id, "document_count", 0 - 1),
                     fs |-> IF "file_path" \in DOMAIN doc
                            THEN Del(st.fs, doc.file_path) ELSE st.fs,
                     deleted_count |-> st.deleted_count + 1])
         ELSE DeleteLoop_anyOwner(Tail(document_ids), dataset_id, st)

\* the loop of delete_documents, api_server.py:523-536
RECURSIVE DeleteLoop(_, _, _)
DeleteLoop(document_ids, dataset_id, st) ==
    IF document_ids = <<>> THEN st
    ELSE LET doc_id == Head(document_ids) IN
         IF doc_id \in DOMAIN st.docs /\ st.docs[doc_id].kb_id = dataset_id
         THEN LET doc == st.docs[doc_id]
                  chunk_count == Get(doc, "chunk_num", 0)
              IN  DeleteLoop(Tail(document_ids), dataset_id,
                    [docs |-> Del(st.docs, doc_id),
                     kbs |-> AddTo(AddTo(st.kbs, dataset_id, "chunk_count",
                                         0 - chunk_count),
                                   dataset_id, "document_count", 0 - 1),
                     fs |-> IF "file_path" \in DOMAIN doc
                            THEN Del(st.fs, doc.file_path) ELSE st.fs,
                     deleted_count |-> st.deleted_count + 1])
         ELSE DeleteLoop(Tail(document_ids), dataset_id, st)

\* DELETE /api/v1/datasets/{dataset_id}/documents, api_server.py:511-549
delete_documents(dataset_id, document_ids) ==
    /\ IF dataset_id \notin DOMAIN knowledge_bases
       THEN /\ response' = [op |-> "delete_documents", code |-> 404]
            /\ UNCHANGED <<knowledge_bases, documents_storage, files>>
       ELSE LET out == DeleteLoop(document_ids, dataset_id,
                            [docs |-> documents_storage,
                             kbs |-> knowledge_bases,
                             fs |-> files,
                             deleted_count |-> 0])
            IN  /\ documents_storage' = out.docs
                /\ knowledge_bases' = out.kbs
                /\ files' = out.fs
                /\ response' = [op |-> "delete_documents", code |-> 0,
                                deleted_count |-> out.deleted_count]
    /\ UNCHANGED <<RAG_AVAILABLE, now, chatVars, uploads, accepted, jobs,
                   idxVars>>
    /\ OrderFollows

----------------------------------------------------------------------------
(* Listing handlers, api_server.py:234-259 and 343-382.  The registries of   *)
(* the model are functions; the order in which values() lists their records  *)
(* is that of key_order.                                                     *)

MaxPage == 3
MaxPageSize == 5

Min(a, b) == IF a < b THEN a ELSE b
Max(a, b) == IF a > b THEN a ELSE b

\* a slice index of Python, brought into 0..n
SliceIndex(i, n) == IF i < 0 THEN Max(i + n, 0) ELSE Min(i, n)

\* list[start_idx:end_idx]
Slice(list, start_idx, end_idx) ==
    SubSeq(list, SliceIndex(start_idx, Len(list)) + 1,
                 SliceIndex(end_idx, Len(list)))

\* mutant of StartIdx: pages counted from 0
StartIdx_fromZero(page, page_size) == page * page_size

\* start_idx = (page - 1) * page_size, api_server.py:241, 364
StartIdx(page, page_size) == (page - 1) * page_size

\* end_idx = start_idx + page_size, api_server.py:242, 365
EndIdx(page, page_size) == StartIdx(page, page_size) + page_size

\* str.lower() on the characters of the model
Lower(s) == [i \in 1..Len(s) |-> IF s[i] = "A" THEN "a" ELSE s[i]]

\* needle in haystack, for strings
IsSubstring(needle, haystack) ==
    \E i \in 0..(Len(haystack) - Len(needle)) :
        SubSeq(haystack, i + 1, i + Len(needle)) = needle

\* the characters of the document names of the model
NameText(name) ==
    CASE name = "dev_csv(1).csv" -> <<"d", "e", "v", "_", "c", "s", "v", "(", "1", ")", ".", "c", "s", "v">>
      [] name = "a.csv" -> <<"a", ".", "c", "s", "v">>
      [] name = "b.txt" -> <<"b", ".", "t", "x", "t">>
      [] name = "c.pdf" -> <<"c", ".", "p", "d", "f">>
      [] name = "b1.pdf" -> <<"b", "1", ".", "p", "d", "f">>
      [] name = "A2.pdf" -> <<"A", "2", ".", "p", "d", "f">>
      [] name = "b3.pdf" -> <<"b", "3", ".", "p", "d", "f">>
      [] name = "A4.pdf" -> <<"A", "4", ".", "p", "d", "f">>
      [] name = "b5.pdf" -> <<"b", "5", ".", "p", "d", "f">>
      [] name = "A6.pdf" -> <<"A", "6", ".", "p", "d", "f">>
      [] name = "b7.pdf" -> <<"b", "7", ".", "p", "d", "f">>
      [] name = "A8.pdf" -> <<"A", "8", ".", "p", "d", "f">>
      [] name = "b9.pdf" -> <<"b", "9", ".", "p", "d", "f">>
      [] name = "A10.pdf" -> <<"A", "1", "0", ".", "p", "d", "f">>
      [] name = "b11.pdf" -> <<"b", "1", "1", ".", "p", "d", "f">>
      [] name = "A12.pdf" -> <<"A", "1", "2", ".", "p", "d", "f">>
      [] name = "b13.pdf" -> <<"b", "1", "3", ".", "p", "d", "f">>
      [] name = "A14.pdf" -> <<"A", "1", "4", ".", "p", "d", "f">>
      [] name = "b15.pdf" -> <<"b", "1", "5", ".", "p", "d", "f">>
      [] name = "A16.pdf" -> <<"A", "1", "6", ".", "p", "d", "f">>
      [] name = "b17.pdf" -> <<"b", "1", "7", ".", "p", "d", "f">>
      [] name = "A18.pdf" -> <<"A", "1", "8", ".", "p", "d", "f">>
      [] name = "b19.pdf" -> <<"b", "1", "9", ".", "p", "d", "f">>
      [] name = "A20.pdf" -> <<"A", "2", "0", ".", "p", "d", "f">>
      [] name = "b21.pdf" -> <<"b", "2", "1", ".", "p", "d", "f">>
      [] name = "A22.pdf" -> <<"A", "2", "2", ".", "p", "d", "f">>
      [] name = "b23.pdf" -> <<"b", "2", "3", ".", "p", "d", "f">>
      [] name = "A24.pdf" -> <<"A", "2", "4", ".", "p", "d", "f">>
      [] name = "b25.pdf" -> <<"b", "2", "5", ".", "p", "d", "f">>
      [] name = "A26.pdf" -> <<"A", "2", "6", ".", "p", "d", "f">>
      [] name = "b27.pdf" -> <<"b", "2", "7", ".", "p", "d", "f">>
      [] name = "A28.pdf" -> <<"A", "2", "8", ".", "p", "d", "f">>
      [] name = "b29.pdf" -> <<"b", "2", "9", ".", "p", "d", "f">>
      [] name = "A30.pdf" -> <<"A", "3", "0", ".", "p", "d", "f">>

Keywords == {<<>>, <<"a">>}

\* GET /api/v1/datasets, api_server.py:234-259
get_datasets(page, page_size) ==
    LET kb_list == Values(knowledge_bases, key_order.knowledge_bases)
        paginated_kbs == Slice(kb_list, StartIdx(page, page_size),
                               EndIdx(page, page_size))
    IN
    /\ response' = [op |-> "get_datasets", code |-> 0,
                    data |-> paginated_kbs, total |-> Len(kb_list),
                    page |-> page, page_size |-> page_size]
    /\ UNCHANGED <<RAG_AVAILABLE, key_order, now, chatVars, regVars, idxVars>>

\* the documents of a knowledge base that pass the keyword filter,
\* api_server.py:355-361
MatchingDocuments(dataset_id, keywords) ==
    LET OfKb(doc) == Get(doc, "kb_id", None) = dataset_id
        Named(doc) == IsSubstring(Lower(keywords), Lower(NameText(doc.name)))
        kb_documents ==
            SelectSeq(Values(documents_storage, key_order.documents_storage),
                      OfKb)
    IN  IF keywords # <<>> THEN SelectSeq(kb_documents, Named)
        ELSE kb_documents

\* GET /api/v1/datasets/{dataset_id}/documents, api_server.py:343-382
get_documents(dataset_id, page, page_size, keywords) ==
    /\ IF dataset_id \notin DOMAIN knowledge_bases
       THEN response' = [op |-> "get_documents", code |-> 404, data |-> <<>>]
       ELSE LET kb_documents == MatchingDocuments(dataset_id, keywords)
                paginated_docs == Slice(kb_documents, StartIdx(page, page_size),
                                        EndIdx(page, page_size))
            IN  response' = [op |-> "get_documents", code |-> 0,
                             data |-> paginated_docs,
                             total |-> Len(kb_documents),
                             page |-> page, page_size |-> page_size]
    /\ UNCHANGED <<RAG_AVAILABLE, key_order, now, chatVars, regVars, idxVars>>

----------------------------------------------------------------------------
(* Initial states *)

\* chat_tasks = {} at import, api_server.py:78
ChatInit ==
    /\ chat_tasks = EmptyDict
    /\ issued = {}
    /\ wpc = [t \in TaskIds |-> [at |-> "idle", question |-> <<>>, model |-> ""]]
    /\ hist = [t \in TaskIds |-> <<>>]
    /\ submitted = [t \in TaskIds |-> EmptyDict]
    /\ raised = [t \in TaskIds |-> <<>>]

\* the chat task machine alone: the registries stay as startup left them
Init ==
    /\ RAG_AVAILABLE \in BOOLEAN
    /\ now = 0
    /\ response = NoResponse
    /\ ChatInit
    /\ knowledge_bases = InitialKnowledgeBases
    /\ documents_storage = InitialDocuments
    /\ files = EmptyDict
    /\ uploads = {}
    /\ accepted = 0
    /\ jobs = <<>>
    /\ vector_index = EmptyDict
    /\ store_log = <<>>
    /\ key_order = InitialOrder

Next ==
    \/ \E request \in ChatRequests : chat_completions(request)
    \/ \E t \in TaskIds : WorkerStart(t)
    \/ \E t \in TaskIds : RetrieveReturns(t)
    \/ \E t \in TaskIds, err \in Errors : RetrieveRaises(t, err)
    \/ \E t \in TaskIds, result \in Answers : GenerateReturns(t, result)
    \/ \E t \in TaskIds, err \in Errors : GenerateRaises(t, err)
    \/ \E t \in TaskIds : SleepReturns(t)
    \/ \E t \in TaskIds : get_chat_task(t)
    \/ Tick

Spec == Init /\ [][Next]_vars

\* The worker never reads the clock except to stamp the record it writes, so
\* for progress the clock is held at the time the behaviour starts, which is
\* any time; everything else is as in Spec.
FairInit ==
    /\ RAG_AVAILABLE \in BOOLEAN
    /\ now \in 0..MaxTime
    /\ response = NoResponse
    /\ ChatInit
    /\ knowledge_bases = InitialKnowledgeBases
    /\ documents_storage = InitialDocuments
    /\ files = EmptyDict
    /\ uploads = {}
    /\ accepted = 0
    /\ jobs = <<>>
    /\ vector_index = EmptyDict
    /\ store_log = <<>>
    /\ key_order = InitialOrder

FairNext ==
    \/ \E request \in ChatRequests : chat_completions(request)
    \/ \E t \in TaskIds : WorkerStep(t)
    \/ \E t \in TaskIds : get_chat_task(t)

\* BackgroundTasks runs every task it was given, and every external call
\* returns or raises: each worker step that is enabled is eventually taken
FairSpec ==
    /\ FairInit
    /\ [][FairNext]_vars
    /\ \A t \in TaskIds : WF_vars(WorkerStep(t))

----------------------------------------------------------------------------
(* DocumentProcessor on its own: calls of process_and_store on one index *)

MaxCalls == 2

\* Documents as the callers build them: without an 'id' in the metadata
\* (api_server.py:161-169, 480-487) and with one
\* (rag_doc_vect_embedding_csv.py:43-46)
DocLong  == [page_content |-> <<"x", "y", "z", "w">>,
             metadata |-> [source |-> "a.txt", type |-> "text"]]
DocShort == [page_content |-> <<"u", " ", "v">>,
             metadata |-> [source |-> "b.txt", type |-> "text"]]
DocEmpty == [page_content |-> <<>>,
             metadata |-> [source |-> "e.txt", type |-> "text"]]
DocWithId == [page_content |-> <<"p", "q", "r", "s">>,
              metadata |-> [source |-> "csv", type |-> "row", id |-> "7"]]

DocumentLists ==
    {<<DocLong>>, <<DocShort>>, <<DocLong, DocShort>>, <<DocShort, DocLong>>,
     <<DocWithId>>, <<DocWithId, DocShort>>, <<DocEmpty>>,
     <<DocWithId, DocWithId>>}

Processors == {DefaultProcessor, [chunk_size |-> 3, chunk_overlap |-> 1]}

\* what the collection may hold when the first call is made: nothing, or an
\* entry of an earlier run under an id the new batch may name again
StaleEntry ==
    [page_content |-> <<"o", "l", "d">>,
     metadata |-> [source |-> "old.txt", type |-> "text",
                   chunk_id |-> "doc_0_0", chunk_index |-> 0,
                   original_id |-> "doc_0"]]

InitialIndexes == {EmptyDict, [k \in {"doc_0_0"} |-> StaleEntry]}

StoreInit ==
    /\ RAG_AVAILABLE = TRUE
    /\ now = 0
    /\ response = NoResponse
    /\ ChatInit
    /\ knowledge_bases = EmptyDict
    /\ documents_storage = EmptyDict
    /\ files = EmptyDict
    /\ uploads = {}
    /\ accepted = 0
    /\ jobs = <<>>
    /\ vector_index \in InitialIndexes
    /\ store_log = <<>>
    /\ key_order = [knowledge_bases |-> <<>>, documents_storage |-> <<>>]

\* one call processor.process_and_store(documents, vector_store)
CallProcessAndStore(documents, processor, delete_ok, add_ok) ==
    LET out == process_and_store(vector_index, documents, processor,
                                 delete_ok, add_ok) IN
    /\ Len(store_log) < MaxCalls
    /\ vector_index' = out.index
    /\ store_log' = Append(store_log,
                           [documents |-> documents,
                            processor |-> processor,
                            raised |-> out.raised,
                            returned |-> out.returned,
                            ids |-> out.ids,
                            before |-> vector_index,
                            after |-> out.index])
    /\ UNCHANGED <<RAG_AVAILABLE, key_order, now, response, chatVars, regVars>>

StoreNext ==
    \E documents \in DocumentLists, processor \in Processors,
       delete_ok \in BOOLEAN, add_ok \in BOOLEAN :
        CallProcessAndStore(documents, processor, delete_ok, add_ok)

StoreSpec == StoreInit /\ [][StoreNext]_vars

\* processors built with parameters at and beyond the edge: the overlap as
\* large as the chunk size, larger than it, and a chunk size of zero
EdgeProcessors ==
    {[chunk_size |-> 3, chunk_overlap |-> 3],
     [chunk_size |-> 3, chunk_overlap |-> 4],
     [chunk_size |-> 0, chunk_overlap |-> 1]}

ConfigNext ==
    \E documents \in DocumentLists, processor \in EdgeProcessors,
       delete_ok \in BOOLEAN, add_ok \in BOOLEAN :
        CallProcessAndStore(documents, processor, delete_ok, add_ok)

ConfigSpec == StoreInit /\ [][ConfigNext]_vars

\* the server after its startup event, api_server.py:81-119
RegistryInit ==
    /\ RAG_AVAILABLE \in BOOLEAN
    /\ now = 0
    /\ response = NoResponse
    /\ ChatInit
    /\ knowledge_bases = InitialKnowledgeBases
    /\ documents_storage = InitialDocuments
    /\ files = EmptyDict
    /\ uploads = {}
    /\ accepted = 0
    /\ jobs = <<>>
    /\ vector_index = EmptyDict
    /\ store_log = <<>>
    /\ key_order = InitialOrder

\* every handler of the registry and the workers; the uploads of a behaviour
\* are capped at MaxRegistryUploads
RegistryNext ==
    \/ \E name \in KbNames : create_dataset(name)
    \/ \E dataset_id \in DatasetIds : delete_dataset(dataset_id)
    \/ /\ accepted < MaxRegistryUploads
       /\ \E dataset_id \in DatasetIds, file \in UploadFiles :
            upload_document_begin(dataset_id, file)
    \/ \E u \in uploads : upload_document_finish(u)
    \/ \E dataset_id \in DatasetIds, document_ids \in DocIdLists :
            delete_documents(dataset_id, document_ids)
    \/ \E i \in 1..MaxUploads, delete_ok \in BOOLEAN, add_ok \in BOOLEAN :
            IngestionWorker(i, delete_ok, add_ok)

RegistrySpec == RegistryInit /\ [][RegistryNext]_vars

\* uploads and their workers alone: nothing is deleted
IngestNext ==
    \/ \E name \in KbNames : create_dataset(name)
    \/ \E dataset_id \in DatasetIds, file \in UploadFiles :
            upload_document_begin(dataset_id, file)
    \/ \E u \in uploads : upload_document_finish(u)
    \/ \E i \in 1..MaxUploads, delete_ok \in BOOLEAN, add_ok \in BOOLEAN :
            IngestionWorker(i, delete_ok, add_ok)

IngestSpec == RegistryInit /\ [][IngestNext]_vars

\* uploads, their workers and delete_documents, with the knowledge bases
\* there are: no knowledge base is deleted
CounterNext ==
    \/ \E name \in KbNames : create_dataset(name)
    \/ \E dataset_id \in DatasetIds, file \in UploadFiles :
            upload_document_begin(dataset_id, file)
    \/ \E u \in uploads : upload_document_finish(u)
    \/ \E dataset_id \in DatasetIds, document_ids \in DocIdLists :
            delete_documents(dataset_id, document_ids)
    \/ \E i \in 1..MaxUploads, delete_ok \in BOOLEAN, add_ok \in BOOLEAN :
            IngestionWorker(i, delete_ok, add_ok)

CounterSpec == RegistryInit /\ [][CounterNext]_vars

\* IngestNext with the scheduling of the event loop: a handler suspended in
\* await file.read() is resumed, and BackgroundTasks runs every task it was
\* given.  A worker step is possible exactly when a job is pending (it
\* takes the job off jobs), so weak fairness of the worker steps is stated
\* with that condition: infinitely often no job is pending, or infinitely
\* often a worker step is taken
FairIngestSpec ==
    /\ RegistryInit
    /\ [][IngestNext]_vars
    /\ WF_vars(\E u \in uploads : upload_document_finish(u))
    /\ \/ []<>(jobs = <<>>)
       \/ []<><<\E i \in 1..MaxUploads, delete_ok \in BOOLEAN,
                   add_ok \in BOOLEAN :
                       IngestionWorker(i, delete_ok, add_ok)>>_vars

\* the file the client uploads in the i-th place and the knowledge base it
\* uploads it to: one file in three goes to the knowledge base made just
\* before, the others to the default one
PageFile(i) == [filename |-> PageFileName(i), content |-> PdfBytes]
PageDataset(i) ==
    IF i % 3 = 0 THEN generate_kb_id(PageKbName(i)) ELSE "default_kb"

\* where the program is after startup and then, for i = 1..n, a call of
\* create_dataset with PageKbName(i) and an upload of PageFile(i) to
\* PageDataset(i), none of the workers having run yet
RECURSIVE Filled(_)
Filled(n) ==
    IF n = 0
    THEN [kbs |-> InitialKnowledgeBases, docs |-> InitialDocuments,
          fs |-> EmptyDict, jobs |-> <<>>, order |-> InitialOrder]
    ELSE LET st == Filled(n - 1)
             kb_id == generate_kb_id(PageKbName(n))
             file == PageFile(n)
             doc_id == generate_doc_id(file.filename)
             file_path == DataPath(file.filename)
         IN  [kbs |-> AddTo(Put(st.kbs, kb_id, new_kb(kb_id, PageKbName(n))),
                            PageDataset(n), "document_count", 1),
              docs |-> Put(st.docs, doc_id, DocInfo(PageDataset(n), file)),
              fs |-> Put(st.fs, file_path, file.content),
              jobs |-> Append(st.jobs, [doc_id |-> doc_id,
                                        file_path |-> file_path,
                                        kb_id |-> PageDataset(n)]),
              order |-> [knowledge_bases |->
                            Append(st.order.knowledge_bases, kb_id),
                         documents_storage |->
                            Append(st.order.documents_storage, doc_id)]]

\* the listing handlers alone, over registries a client has filled: up to
\* MaxItems knowledge bases, the default one among them, or none at all when
\* the server started without the RAG modules
PageInit ==
    /\ RAG_AVAILABLE \in BOOLEAN
    /\ now = 0
    /\ response = NoResponse
    /\ ChatInit
    /\ uploads = {}
    /\ vector_index = EmptyDict
    /\ store_log = <<>>
    /\ \E n \in 0..(MaxItems - 1) :
          /\ RAG_AVAILABLE \/ n = 0
          /\ LET st == Filled(n) IN
                /\ knowledge_bases = st.kbs
                /\ documents_storage = st.docs
                /\ files = st.fs
                /\ jobs = st.jobs
                /\ key_order = st.order
                /\ accepted = n

\* the knowledge bases a client asks the documents of: the default one, one
\* that holds one document, and one that is none
PageDatasetIds ==
    {"default_kb", "kb_none", generate_kb_id(PageKbName(3))}

PageNext ==
    \/ \E page \in 1..MaxPage, page_size \in 1..MaxPageSize :
            get_datasets(page, page_size)
    \/ \E dataset_id \in PageDatasetIds, page \in 1..MaxPage,
          page_size \in 1..MaxPageSize, keywords \in Keywords :
            get_documents(dataset_id, page, page_size, keywords)

PageSpec == PageInit /\ [][PageNext]_vars

----------------------------------------------------------------------------
(* Claims about the chat task state machine *)

Last(seq) == seq[Len(seq)]

Contains(seq, x) == \E i \in 1..Len(seq) : seq[i] = x

\* the statuses of seq occur in this order: retrieving, generating, completed
PassedThroughBoth(seq) ==
    \E i, j, k \in 1..Len(seq) :
        /\ i < j /\ j < k
        /\ seq[i] = "retrieving" /\ seq[j] = "generating" /\ seq[k] = "completed"

\* C1: in every mode, a task reaches `completed` only after it has been
\* `retrieving` and then `generating`.
C1_NoSkipToCompleted ==
    \A t \in TaskIds :
        Contains(hist[t], "completed") => PassedThroughBoth(hist[t])

\* C2: `completed` and `failed` are terminal and mutually exclusive: once an
\* entry is terminal no step changes its status; the entry can only be
\* evicted, and only by a poll for it (answered 404).
C2_TerminalIsFinal ==
    /\ [](\A t \in TaskIds :
            ~(Contains(hist[t], "completed") /\ Contains(hist[t], "failed")))
    /\ [][\A t \in DOMAIN chat_tasks :
            chat_tasks[t].status \in Terminal =>
                IF t \in DOMAIN chat_tasks'
                THEN /\ chat_tasks'[t].status = chat_tasks[t].status
                     /\ hist'[t] = hist[t]
                ELSE /\ response'.op = "get_chat_task"
                     /\ response'.code = 404
                     /\ response'.detail.task_id = t]_vars

\* C2 witness: a completed and a failed task side by side, after a later poll
\* of one of them returned its record
C2_Witness ==
    \E t, u \in DOMAIN chat_tasks :
        /\ chat_tasks[t].status = "completed"
        /\ chat_tasks[u].status = "failed"
        /\ response.op = "get_chat_task"
        /\ response.code = 200
        /\ response.detail.task_id = t
        /\ now > fromisoformat(chat_tasks[t].completed_at)

\* C3: when retrieval or generation raises, the worker ends normally and the
\* task is `failed` with error = the exception's message, failed_at set, and
\* question/created_at as written at submission.
C3_RaiseEndsFailed ==
    \A t \in TaskIds :
        raised[t] # <<>> =>
            /\ wpc[t].at = "done"
            /\ Last(hist[t]) = "failed"
            /\ t \in DOMAIN chat_tasks =>
                  /\ chat_tasks[t].status = "failed"
                  /\ "error" \in DOMAIN chat_tasks[t]
                  /\ chat_tasks[t].error = raised[t][1]
                  /\ "failed_at" \in DOMAIN chat_tasks[t]
                  /\ "question" \in DOMAIN chat_tasks[t]
                  /\ chat_tasks[t].question = submitted[t].question
                  /\ "created_at" \in DOMAIN chat_tasks[t]
                  /\ chat_tasks[t].created_at = submitted[t].created_at

\* C3 witness: one task failed in retrieval and another in generation, the
\* second submitted later than time 0
C3_Witness ==
    \E t, u \in DOMAIN chat_tasks :
        /\ raised[t] # <<>> /\ hist[t] = <<"processing", "retrieving", "failed">>
        /\ raised[u] # <<>>
        /\ hist[u] = <<"processing", "retrieving", "generating", "failed">>
        /\ fromisoformat(chat_tasks[u].created_at) > 0
        /\ fromisoformat(chat_tasks[u].failed_at)
              > fromisoformat(chat_tasks[u].created_at)

\* C4: under fairness of the background worker, every accepted task
\* eventually reaches `completed` or `failed`.
C4_EventuallyTerminal ==
    \A t \in TaskIds :
        (t \in issued) ~> (hist[t] # <<>> /\ Last(hist[t]) \in Terminal)

\* C4 witness: a task that went the whole way and one that failed
C4_Witness ==
    \E t, u \in TaskIds :
        /\ hist[t] # <<>> /\ Last(hist[t]) = "completed"
        /\ hist[u] # <<>> /\ Last(hist[u]) = "failed"

\* the record is terminal and was finished more than one hour ago
C5_Stale(task_info) ==
    /\ task_info.status \in Terminal
    /\ \/ /\ "completed_at" \in DOMAIN task_info
          /\ now - task_info.completed_at.iso > RetentionHours * TicksPerHour
       \/ /\ "failed_at" \in DOMAIN task_info
          /\ now - task_info.failed_at.iso > RetentionHours * TicksPerHour

\* C5: a poll for a terminal task finished more than one hour ago answers 404
\* and removes the entry; an entry once removed never comes back, and every
\* later poll for it answers 404.
C5_ExpiredPollEvicts ==
    [][\A t \in TaskIds :
        (response'.op = "get_chat_task" /\ response'.detail.task_id = t) =>
            /\ (t \in DOMAIN chat_tasks /\ C5_Stale(chat_tasks[t])) =>
                  (response'.code = 404 /\ t \notin DOMAIN chat_tasks')
            /\ (t \in issued /\ t \notin DOMAIN chat_tasks) =>
                  (response'.code = 404 /\ t \notin DOMAIN chat_tasks')]_vars
    /\ [][\A t \in issued \ DOMAIN chat_tasks : t \notin DOMAIN chat_tasks']_vars

\* C5 witness: an evicted task polled again, one completed and one failed
C5_Witness ==
    /\ response.op = "get_chat_task"
    /\ response.code = 404
    /\ response.detail.why = "absent"
    /\ response.detail.task_id \in issued
    /\ \E t, u \in issued \ DOMAIN chat_tasks :
          Last(hist[t]) = "completed" /\ Last(hist[u]) = "failed"

\* C6: result is non-null iff status is completed; error is present iff status
\* is failed; completed_at only when completed, failed_at only when failed.
C6_FieldsMatchStatus ==
    \A t \in DOMAIN chat_tasks :
        LET r == chat_tasks[t] IN
        /\ (Get(r, "result", None) # None) <=> (r.status = "completed")
        /\ ("error" \in DOMAIN r) <=> (r.status = "failed")
        /\ ("completed_at" \in DOMAIN r) => (r.status = "completed")
        /\ ("failed_at" \in DOMAIN r) => (r.status = "failed")

\* C6 witness: a completed task beside one that failed while generating
C6_Witness ==
    \E t, u \in DOMAIN chat_tasks :
        /\ chat_tasks[t].status = "completed"
        /\ chat_tasks[u].status = "failed"
        /\ Contains(hist[u], "generating")

HasUserMessage(request) ==
    \E i \in 1..Len(request.messages) : request.messages[i].role = "user"

\* C7: a submission with a user message is one step: it creates the record
\* with status processing under a fresh id, schedules the worker without
\* running any of it, touches no other task, and answers task_id/processing;
\* a poll before the worker's first step finds status processing.
C7_SubmitReturnsImmediately ==
    /\ [][\A request \in ChatRequests :
            (chat_completions(request) /\ HasUserMessage(request)) =>
                (response'.op = "chat_completions" /\ response'.code = 200)]_vars
    /\ [][(response'.op = "chat_completions" /\ response'.code = 200) =>
            LET tid == response'.task_id IN
            /\ tid \notin issued
            /\ tid \notin DOMAIN chat_tasks
            /\ response'.status = "processing"
            /\ tid \in DOMAIN chat_tasks'
            /\ chat_tasks'[tid].status = "processing"
            /\ chat_tasks'[tid].result = None
            /\ wpc'[tid].at = "scheduled"
            /\ hist'[tid] = <<"processing">>
            /\ \A u \in TaskIds \ {tid} :
                  /\ wpc'[u] = wpc[u]
                  /\ hist'[u] = hist[u]
                  /\ (u \in DOMAIN chat_tasks) =
                        (u \in DOMAIN chat_tasks')
                  /\ u \in DOMAIN chat_tasks =>
                        chat_tasks'[u] = chat_tasks[u]]_vars
    /\ [][\A t \in TaskIds :
            (/\ response'.op = "get_chat_task"
             /\ response'.detail.task_id = t
             /\ wpc[t].at = "scheduled") =>
                (response'.code = 200 /\ response'.body.status = "processing")]_vars

\* C7 witness: a poll that found the task before its worker's first step,
\* while another task's worker was already under way
C7_Witness ==
    /\ response.op = "get_chat_task"
    /\ response.code = 200
    /\ wpc[response.detail.task_id].at = "scheduled"
    /\ response.body.status = "processing"
    /\ \E u \in TaskIds : wpc[u].at \in {"generate", "sleep"}

\* C17: every step of the worker of task t, its failure path included,
\* changes no entry of chat_tasks but that of t and leaves the knowledge-base
\* and document registries alone; the status of an entry is always the last
\* one its own task wrote.  (A worker step of t moves wpc[t].)
C17_TaskIsolation ==
    /\ [](\A t \in DOMAIN chat_tasks : chat_tasks[t].status = Last(hist[t]))
    /\ [][\A t \in TaskIds :
            (wpc'[t] # wpc[t] /\ WorkerStep(t)) =>
                /\ \A u \in TaskIds \ {t} :
                      /\ (u \in DOMAIN chat_tasks') <=> (u \in DOMAIN chat_tasks)
                      /\ u \in DOMAIN chat_tasks =>
                            chat_tasks'[u] = chat_tasks[u]
                      /\ hist'[u] = hist[u]
                /\ knowledge_bases' = knowledge_bases
                /\ documents_storage' = documents_storage]_vars

\* C17 witness: a task has just failed while another one is between its
\* worker's steps, and the registries hold the startup entries
C17_Witness ==
    /\ knowledge_bases # EmptyDict /\ documents_storage # EmptyDict
    /\ \E t, u \in DOMAIN chat_tasks :
          /\ raised[t] # <<>> /\ chat_tasks[t].status = "failed"
          /\ chat_tasks[u].status = "generating"
          /\ wpc[u].at = "generate"
          /\ fromisoformat(chat_tasks[t].failed_at)
                > fromisoformat(chat_tasks[u].created_at)

\* the number of whitespace-separated tokens of s: the positions where a
\* token starts
WordCount(s) ==
    Cardinality({i \in 1..Len(s) :
                    s[i] \notin Whitespace /\ (i = 1 \/ s[i - 1] \in Whitespace)})

\* C19: for every completed task, on the real and on the demo path,
\* usage.total_tokens = prompt_tokens + completion_tokens, prompt_tokens is
\* the whitespace-token count of the question and completion_tokens that of
\* the answer text.
C19_UsageAddsUp ==
    \A t \in DOMAIN chat_tasks :
        chat_tasks[t].status = "completed" =>
            LET usage == chat_tasks[t].result.usage
                answer == chat_tasks[t].result.choices[1].message.content
            IN  /\ usage.total_tokens
                      = usage.prompt_tokens + usage.completion_tokens
                /\ usage.prompt_tokens = WordCount(chat_tasks[t].question)
                /\ usage.completion_tokens = WordCount(answer.text)

\* C19 witness: a task completed by the chain with a two-word question and a
\* two-word answer
C19_Witness ==
    \E t \in DOMAIN chat_tasks :
        /\ RAG_AVAILABLE
        /\ chat_tasks[t].status = "completed"
        /\ chat_tasks[t].result.usage.prompt_tokens = 2
        /\ chat_tasks[t].result.usage.completion_tokens = 2
        /\ chat_tasks[t].result.usage.total_tokens = 4

\* C20: when the external dependencies are unavailable (the RAG modules not
\* loaded, or the retriever failing when called) a submitted task does not
\* end `failed`.
C20_DegradesToMock ==
    \A t \in TaskIds :
        (~RAG_AVAILABLE \/ (raised[t] # <<>> /\ ~Contains(hist[t], "generating")))
            => ~Contains(hist[t], "failed")

\* C21: a poll for a task id that is not in chat_tasks, never submitted or
\* already evicted, answers 404 and changes nothing: chat_tasks and both
\* registries are the same before and after.
C21_AbsentPollNotFound ==
    [][\A t \in TaskIds :
        (t \notin DOMAIN chat_tasks /\ get_chat_task(t)) =>
            /\ response'.op = "get_chat_task"
            /\ response'.code = 404
            /\ chat_tasks' = chat_tasks
            /\ knowledge_bases' = knowledge_bases
            /\ documents_storage' = documents_storage]_vars

\* C21 witness: a poll for an id never handed out was answered 404 while
\* another task is in the table
C21_Witness ==
    /\ response.op = "get_chat_task"
    /\ response.code = 404
    /\ response.detail.why = "absent"
    /\ response.detail.task_id \notin issued
    /\ chat_tasks # EmptyDict

----------------------------------------------------------------------------
(* Claims about DocumentProcessor *)

\* C8: two calls of process_and_store, one after the other, with the same
\* documents and the same chunk_size/chunk_overlap on the same index, both
\* returning: the index holds the same chunk_ids, and as many entries, after
\* the second call as after the first.
C8_IdempotentCommit ==
    \A i \in 1..(Len(store_log) - 1) :
        LET first == store_log[i]
            second == store_log[i + 1]
        IN  (/\ first.documents = second.documents
             /\ first.processor = second.processor
             /\ ~first.raised
             /\ ~second.raised) =>
                /\ DOMAIN second.after = DOMAIN first.after
                /\ Cardinality(DOMAIN second.after)
                      = Cardinality(DOMAIN first.after)
                /\ Range(second.ids) = Range(first.ids)
                /\ Range(second.ids) \subseteq DOMAIN second.after

\* C8 witness: a batch of several documents and several chunks committed
\* twice over an index that already held an entry under one of its ids, the
\* second call's delete having raised
C8_Witness ==
    /\ Len(store_log) = 2
    /\ store_log[1].documents = store_log[2].documents
    /\ store_log[1].processor = store_log[2].processor
    /\ Len(store_log[1].documents) = 2
    /\ ~store_log[1].raised
    /\ ~store_log[2].raised
    /\ store_log[2].returned = 3
    /\ "doc_0_0" \in DOMAIN store_log[1].before
    /\ store_log[2].after = store_log[1].after

\* the chunk_ids the call gave to its p-th document
IdsGivenTo(call, p) ==
    LET chunks == chunk_documents(call.documents, call.processor.chunk_size,
                                  call.processor.chunk_overlap)
        before == chunk_documents(SubSeq(call.documents, 1, p - 1),
                                  call.processor.chunk_size,
                                  call.processor.chunk_overlap)
        mine == SplitText(call.documents[p].page_content,
                          call.processor.chunk_size,
                          call.processor.chunk_overlap)
    IN  [i \in 1..Len(mine) |-> chunks[Len(before) + i].metadata.chunk_id]

\* C9: the chunk_ids given to a Document depend on the Document and the
\* splitting parameters only, not on the other documents of the list nor on
\* its position in it.
C9_IdsDependOnDocumentOnly ==
    \A i, j \in 1..Len(store_log) :
        \A p \in 1..Len(store_log[i].documents) :
            \A q \in 1..Len(store_log[j].documents) :
                (/\ store_log[i].documents[p] = store_log[j].documents[q]
                 /\ store_log[i].processor = store_log[j].processor) =>
                    IdsGivenTo(store_log[i], p) = IdsGivenTo(store_log[j], q)

----------------------------------------------------------------------------
(* Claims about the registry *)

\* C10: referential integrity: in every reachable state every record in
\* documents_storage has a kb_id that is a key of knowledge_bases.
C10_ReferentialIntegrity ==
    \A doc_id \in DOMAIN documents_storage :
        documents_storage[doc_id].kb_id \in DOMAIN knowledge_bases

\* the ids of the records that name knowledge base k
OwnedBy(docs, k) == {d \in DOMAIN docs : docs[d].kb_id = k}

\* C11: delete_dataset on an existing knowledge base that owns N records
\* removes the knowledge base and exactly those N records: the number of
\* records drops by N, the number of knowledge bases by 1, and the records
\* and counters of every other knowledge base are unchanged.
C11_CascadingDelete ==
    [][\A k \in DOMAIN knowledge_bases :
        delete_dataset(k) =>
            LET owned == OwnedBy(documents_storage, k) IN
            /\ response'.code = 0
            /\ DOMAIN knowledge_bases' = (DOMAIN knowledge_bases) \ {k}
            /\ DOMAIN documents_storage' = (DOMAIN documents_storage) \ owned
            /\ Cardinality(DOMAIN documents_storage')
                  = Cardinality(DOMAIN documents_storage) - Cardinality(owned)
            /\ Cardinality(DOMAIN knowledge_bases')
                  = Cardinality(DOMAIN knowledge_bases) - 1
            /\ \A d \in DOMAIN documents_storage' :
                  documents_storage'[d] = documents_storage[d]
            /\ \A j \in DOMAIN knowledge_bases' :
                  knowledge_bases'[j] = knowledge_bases[j]]_vars

\* C11 witness: the default knowledge base has just been deleted with its
\* document, while an uploaded document of another knowledge base is kept
C11_Witness ==
    /\ RAG_AVAILABLE
    /\ response.op = "delete_dataset" /\ response.code = 0
    /\ "default_kb" \notin DOMAIN knowledge_bases
    /\ "csv_data" \notin DOMAIN documents_storage
    /\ \E k \in DOMAIN knowledge_bases :
          /\ OwnedBy(documents_storage, k) # {}
          /\ knowledge_bases[k].document_count = 1

\* C12: create_dataset with the name of a knowledge base that is in the
\* registry (the default one included) is rejected and leaves knowledge_bases
\* unchanged; no two knowledge bases in the registry bear the same name.
C12_NameConflictRejected ==
    /\ [](\A j, k \in DOMAIN knowledge_bases :
            knowledge_bases[j].name = knowledge_bases[k].name => j = k)
    /\ [][\A name \in KbNames :
            (/\ create_dataset(name)
             /\ \E k \in DOMAIN knowledge_bases :
                    knowledge_bases[k].name = name)
            => /\ response'.code = 400
               /\ knowledge_bases' = knowledge_bases]_vars

\* the sum of chunk_num over the records ids of docs
RECURSIVE SumChunkNum(_, _)
SumChunkNum(docs, ids) ==
    IF ids = {} THEN 0
    ELSE LET d == CHOOSE x \in ids : TRUE
         IN  docs[d].chunk_num + SumChunkNum(docs, ids \ {d})

\* C13: delete_documents(dataset_id, ids) on an existing knowledge base
\* removes exactly the records whose id is in the list and whose kb_id is
\* dataset_id; document_count drops by their number and chunk_count by the
\* sum of their chunk_num; absent, repeated and foreign ids change nothing;
\* deleted_count is the number of records removed.
C13_DeleteDocuments ==
    [][\A dataset_id \in DOMAIN knowledge_bases, document_ids \in DocIdLists :
        delete_documents(dataset_id, document_ids) =>
            LET removed == {d \in Range(document_ids) :
                              /\ d \in DOMAIN documents_storage
                              /\ documents_storage[d].kb_id = dataset_id}
                kb == knowledge_bases[dataset_id]
            IN
            /\ response'.code = 0
            /\ response'.deleted_count = Cardinality(removed)
            /\ DOMAIN documents_storage' = (DOMAIN documents_storage) \ removed
            /\ \A d \in DOMAIN documents_storage' :
                  documents_storage'[d] = documents_storage[d]
            /\ DOMAIN knowledge_bases' = DOMAIN knowledge_bases
            /\ knowledge_bases'[dataset_id] =
                  [kb EXCEPT !.document_count = @ - Cardinality(removed),
                             !.chunk_count =
                                @ - SumChunkNum(documents_storage, removed)]
            /\ \A j \in (DOMAIN knowledge_bases) \ {dataset_id} :
                  knowledge_bases'[j] = knowledge_bases[j]]_vars

\* C13 witness: a delete_documents call that removed one ingested record of
\* its knowledge base and skipped an id owned by another one, which is still
\* there with its counters
C13_Witness ==
    /\ response.op = "delete_documents" /\ response.code = 0
    /\ response.deleted_count = 1
    /\ "csv_data" \notin DOMAIN documents_storage
    /\ "default_kb" \in DOMAIN knowledge_bases
    /\ knowledge_bases["default_kb"].document_count = 0
    /\ knowledge_bases["default_kb"].chunk_count = 0
    /\ \E d \in DOMAIN documents_storage :
          /\ d = generate_doc_id("a.csv")
          /\ documents_storage[d].kb_id # "default_kb"
          /\ documents_storage[d].kb_id \in DOMAIN knowledge_bases
          /\ knowledge_bases[documents_storage[d].kb_id].document_count = 1

\* the number of chunks process_csv_to_vector_store commits for the file at
\* csv_path: the chunks of the Documents of its rows that have content
CommittedChunks(csv_path, kb_id) ==
    Len(chunk_documents(RowDocuments(files[csv_path], 1, csv_path, kb_id),
                        DefaultChunkSize, DefaultChunkOverlap))

\* C14: when the worker of a CSV upload ends with the record `completed`,
\* the record's chunk_num and the increase of the knowledge base's
\* chunk_count are the number of chunks committed to the index for the rows
\* that have content, and document_count stays at the value the upload gave it.
C14_CsvCountsChunks ==
    [][\A i \in 1..Len(jobs), delete_ok \in BOOLEAN, add_ok \in BOOLEAN :
        (/\ IngestionWorker(i, delete_ok, add_ok)
         /\ Suffix(jobs[i].file_path) = ".csv"
         /\ jobs[i].doc_id \in DOMAIN documents_storage'
         /\ documents_storage'[jobs[i].doc_id].status = "completed"
         /\ jobs[i].kb_id \in DOMAIN knowledge_bases)
        => LET committed == CommittedChunks(jobs[i].file_path, jobs[i].kb_id)
               kb_id == jobs[i].kb_id
           IN  /\ documents_storage'[jobs[i].doc_id].chunk_num = committed
               /\ knowledge_bases'[kb_id].chunk_count
                     = knowledge_bases[kb_id].chunk_count + committed
               /\ knowledge_bases'[kb_id].document_count
                     = knowledge_bases[kb_id].document_count]_vars

\* C15: document_count is updated atomically with the commit: in no state
\* does a knowledge base's document_count exceed the number of its records
\* whose ingestion is committed and counted (status completed).
C15_CountAtomicWithCommit ==
    \A k \in DOMAIN knowledge_bases :
        knowledge_bases[k].document_count
            <= Cardinality({d \in OwnedBy(documents_storage, k) :
                              documents_storage[d].status = "completed"})

\* the records made by upload_document
Uploaded == (DOMAIN documents_storage) \ DOMAIN InitialDocuments

\* the value a counter of knowledge base k had when k entered the registry
InitialCount(k, field) ==
    IF k \in DOMAIN InitialKnowledgeBases
    THEN InitialKnowledgeBases[k][field] ELSE 0

\* the accepted uploads have pairwise distinct file names: each one that has
\* returned has a record of its own
DistinctFilenames == accepted = Cardinality(uploads) + Cardinality(Uploaded)

\* C16: with no deletes and pairwise distinct file names, in every state
\* reached by any interleaving of uploads and workers each knowledge base's
\* document_count is its initial value plus the number of uploads into it
\* that have returned, and its chunk_count is its initial value plus the sum
\* of the chunk_num recorded by the workers that succeeded.
C16_NoLostUpdates ==
    DistinctFilenames =>
        \A k \in DOMAIN knowledge_bases :
            LET mine == {d \in Uploaded : documents_storage[d].kb_id = k}
                done == {d \in mine : documents_storage[d].status = "completed"}
            IN  /\ knowledge_bases[k].document_count
                      = InitialCount(k, "document_count") + Cardinality(mine)
                /\ knowledge_bases[k].chunk_count
                      = InitialCount(k, "chunk_count")
                            + SumChunkNum(documents_storage, done)

\* C16 witness: two uploads with different file names into the same
\* knowledge base, both ingested
C16_Witness ==
    /\ accepted = 2 /\ uploads = {} /\ jobs = <<>>
    /\ DistinctFilenames
    /\ \E k \in DOMAIN knowledge_bases :
          /\ Cardinality({d \in Uploaded : documents_storage[d].kb_id = k}) = 2
          /\ \A d \in Uploaded : documents_storage[d].status = "completed"
          /\ knowledge_bases[k].document_count
                = InitialCount(k, "document_count") + 2
          /\ knowledge_bases[k].chunk_count
                > InitialCount(k, "chunk_count") + 1

----------------------------------------------------------------------------
(* Claims about the listing handlers *)

\* the items of list at the 1-based positions
\* (page-1)*page_size+1 .. min(page*page_size, T)
ItemsOfPage(list, page, page_size) ==
    LET first == (page - 1) * page_size + 1
        last == Min(page * page_size, Len(list))
    IN  [i \in 1..Max(last - first + 1, 0) |-> list[first + i - 1]]

\* C18: for page >= 1 and page_size >= 1 over a list of T items, get_datasets
\* and get_documents answer exactly the items at positions
\* (page-1)*page_size+1 .. min(page*page_size, T), in list order, nothing when
\* the page starts past T, and total = T.
C18_Pagination ==
    /\ [][(response'.op = "get_datasets" /\ response'.code = 0) =>
            LET page == response'.page
                page_size == response'.page_size
                list == Values(knowledge_bases, key_order.knowledge_bases)
            IN  get_datasets(page, page_size) =>
                    /\ page >= 1 /\ page_size >= 1
                    /\ response'.data = ItemsOfPage(list, page, page_size)
                    /\ response'.total = Len(list)]_vars
    /\ [][(response'.op = "get_documents" /\ response'.code = 0) =>
            LET page == response'.page
                page_size == response'.page_size
            IN  \A dataset_id \in PageDatasetIds, keywords \in Keywords :
                    get_documents(dataset_id, page, page_size, keywords) =>
                        LET list == MatchingDocuments(dataset_id, keywords)
                        IN  /\ page >= 1 /\ page_size >= 1
                            /\ response'.data
                                  = ItemsOfPage(list, page, page_size)
                            /\ response'.total = Len(list)]_vars

\* C18 witness: page 2 with page_size 5 of the 12 knowledge bases was
\* answered with the 6th to the 10th of them, the 5th to the 9th the client
\* made, and total 12
C18_Witness ==
    /\ response.op = "get_datasets" /\ response.code = 0
    /\ Len(key_order.knowledge_bases) = 12
    /\ response.page = 2 /\ response.page_size = 5
    /\ response.total = 12
    /\ Len(response.data) = 5
    /\ response.data[1].name = PageKbName(5)
    /\ response.data[5].name = PageKbName(9)

\* the row has a cell that is not empty
HasContent(row) == \E col \in DOMAIN row : row[col] # NaN

\* C22: the worker of a CSV upload skips the rows without content and still
\* commits the others, ending `completed`; when no row has content, or the
\* file cannot be read, nothing is written to the index and the record, if
\* it is still there, ends `failed`; the worker itself never raises.
C22_CsvToleratesBadRows ==
    [][Len(jobs') < Len(jobs) =>
       \A i \in 1..Len(jobs), delete_ok \in BOOLEAN, add_ok \in BOOLEAN :
        (/\ Suffix(jobs[i].file_path) = ".csv"
         /\ IngestionWorker(i, delete_ok, add_ok))
        => LET job == jobs[i]
               readable == Readable(files, job.file_path, "csv")
               rows == files[job.file_path].rows
               valid == {r \in 1..Len(rows) : HasContent(rows[r])}
               written == {id \in DOMAIN vector_index' :
                              \/ id \notin DOMAIN vector_index
                              \/ vector_index'[id] # vector_index[id]}
           IN  IF ~readable \/ valid = {}
               THEN /\ vector_index' = vector_index
                    /\ job.doc_id \in DOMAIN documents_storage' =>
                          documents_storage'[job.doc_id].status = "failed"
               ELSE add_ok =>
                    /\ \A r \in valid : \E id \in DOMAIN vector_index' :
                          /\ vector_index'[id].metadata.source = job.file_path
                          /\ Get(vector_index'[id].metadata, "row_id", 0 - 1)
                                = r - 1
                    /\ \A id \in written :
                          Get(vector_index'[id].metadata, "row_id", 0 - 1) + 1
                              \in valid
                    /\ (/\ job.doc_id \in DOMAIN documents_storage
                        /\ job.kb_id \in DOMAIN knowledge_bases)
                       => documents_storage'[job.doc_id].status = "completed"
          ]_vars

\* C22 witness: one upload of a CSV whose second row is empty ended
\* `completed` with the chunks of its first and third rows in the index
C22_Witness ==
    /\ jobs = <<>> /\ accepted = 1
    /\ \E d \in Uploaded :
          /\ documents_storage[d].status = "completed"
          /\ documents_storage[d].file_path \in DOMAIN files
          /\ files[documents_storage[d].file_path] = CsvMixed
          /\ \E id \in DOMAIN vector_index :
                /\ vector_index[id].metadata.type = "csv_row"
                /\ vector_index[id].metadata.row_id = 0
          /\ \E id \in DOMAIN vector_index :
                /\ vector_index[id].metadata.type = "csv_row"
                /\ vector_index[id].metadata.row_id = 2
          /\ Cardinality(DOMAIN vector_index) = 2

\* C23: an upload to a dataset id that is not in knowledge_bases is answered
\* 404 and one of a file whose extension is not .pdf, .docx, .txt, .csv or
\* .xlsx is answered 400; either way no Document Record is created, no
\* worker is scheduled, no file is written and no counter changes.
C23_RejectedUploadChangesNothing ==
    [][\A dataset_id \in DatasetIds, file \in UploadFiles :
        (/\ \/ dataset_id \notin DOMAIN knowledge_bases
            \/ Suffix(file.filename)
                  \notin {".pdf", ".docx", ".txt", ".csv", ".xlsx"}
         /\ upload_document_begin(dataset_id, file))
        => /\ response'.op = "upload_document"
           /\ response'.code =
                 IF dataset_id \notin DOMAIN knowledge_bases
                 THEN 404 ELSE 400
           /\ documents_storage' = documents_storage
           /\ knowledge_bases' = knowledge_bases
           /\ jobs' = jobs
           /\ uploads' = uploads
           /\ files' = files
           /\ vector_index' = vector_index]_vars

\* C23 witness: an upload was refused for its extension after another one
\* had been accepted and recorded
C23_Witness ==
    /\ response.op = "upload_document"
    /\ response.code = 400
    /\ accepted = 1
    /\ Uploaded # {}

\* C24: a call of process_and_store on a processor whose chunk_overlap is at
\* least its chunk_size, or whose chunk_size is not positive, raises, makes
\* no chunk and leaves the index as it was.
C24_InvalidParametersFail ==
    \A i \in 1..Len(store_log) :
        LET call == store_log[i] IN
        (\/ call.processor.chunk_overlap >= call.processor.chunk_size
         \/ call.processor.chunk_size <= 0)
        => /\ call.raised
           /\ call.ids = <<>>
           /\ call.after = call.before

\* C25: after a call of process_and_store that returned, the index holds
\* under each chunk_id of the batch the chunk of the batch (an older entry
\* of that id is replaced, whether or not the delete before it raised), it
\* holds no other new key, and every entry under another id is as before.
C25_DeleteThenInsert ==
    \A i \in 1..Len(store_log) :
        LET call == store_log[i]
            chunks == chunk_documents(call.documents,
                                      call.processor.chunk_size,
                                      call.processor.chunk_overlap)
        IN  ~call.raised =>
            /\ call.returned = Len(chunks)
            /\ DOMAIN call.after = (DOMAIN call.before) \cup Range(call.ids)
            /\ \A c \in 1..Len(chunks) :
                  /\ chunks[c].metadata.chunk_id \in DOMAIN call.after
                  /\ call.after[chunks[c].metadata.chunk_id] = chunks[c]
            /\ \A id \in (DOMAIN call.before) \ Range(call.ids) :
                  call.after[id] = call.before[id]

\* C25 witness: a call that returned found the entry of an earlier run under
\* doc_0_0 and left the new chunk there, next to the entry of an earlier call
\* that it did not name; the index is the one the call leaves when its
\* delete raises
C25_Witness ==
    /\ Len(store_log) = 2
    /\ ~store_log[1].raised
    /\ ~store_log[2].raised
    /\ "7_0" \in DOMAIN store_log[2].before
    /\ "7_0" \notin Range(store_log[2].ids)
    /\ store_log[2].after["7_0"] = store_log[2].before["7_0"]
    /\ "doc_0_0" \in DOMAIN store_log[2].before
    /\ store_log[2].before["doc_0_0"] = StaleEntry
    /\ store_log[2].after["doc_0_0"] # StaleEntry
    /\ store_log[2].after =
          process_and_store(store_log[2].before, store_log[2].documents,
                            store_log[2].processor, FALSE, TRUE).index

\* C26: chunks of different sources never collide: the worker that ingests
\* one uploaded file neither removes nor replaces an entry of the vector
\* index that was committed for another file.
C26_SourcesNeverCollide ==
    [][\A i \in 1..Len(jobs), delete_ok \in BOOLEAN, add_ok \in BOOLEAN :
        IngestionWorker(i, delete_ok, add_ok) =>
            \A id \in DOMAIN vector_index :
                vector_index[id].metadata.source # jobs[i].file_path =>
                    /\ id \in DOMAIN vector_index'
                    /\ vector_index'[id] = vector_index[id]]_vars

\* C27: in every reachable state the document_count of each knowledge base
\* is the number of records in documents_storage whose kb_id is that
\* knowledge base.
C27_DocumentCountIsRecordCount ==
    \A k \in DOMAIN knowledge_bases :
        knowledge_bases[k].document_count
            = Cardinality(OwnedBy(documents_storage, k))

\* C28: in every reachable state the chunk_count and the document_count of
\* every knowledge base are at least 0.
C28_CountersNotNegative ==
    \A k \in DOMAIN knowledge_bases :
        /\ knowledge_bases[k].chunk_count >= 0
        /\ knowledge_bases[k].document_count >= 0

\* C29: whether the RAG modules are available or not, the record of an
\* accepted upload that is `processing` eventually is `completed` or
\* `failed` (or is gone), given that suspended handlers and background tasks
\* are run.
C29_LeavesProcessing ==
    \A d \in DocIds :
        (/\ d \in DOMAIN documents_storage
         /\ documents_storage[d].status = "processing")
        ~> (\/ d \notin DOMAIN documents_storage
            \/ documents_storage[d].status \in {"completed", "failed"})

\* C30: a chat submission without a message of role `user` is answered with
\* a 400 error, creates no entry in chat_tasks and schedules no worker.
C30_NoUserMessageIs400 ==
    [][\A request \in ChatRequests :
        (UserMessages(request) = <<>> /\ chat_completions(request)) =>
            /\ response'.op = "chat_completions"
            /\ response'.code = 400
            /\ chat_tasks' = chat_tasks
            /\ wpc' = wpc]_vars

\* C31: an ingestion worker creates no registry entry; when its record or
\* the knowledge base it was handed is gone by the time it runs, it leaves
\* documents_storage and the knowledge bases as they were; when it ends with
\* its record `failed`, no counter of any knowledge base has changed.
C31_WorkerLeavesDeletedAlone ==
    [][\A i \in 1..Len(jobs), delete_ok \in BOOLEAN, add_ok \in BOOLEAN :
        IngestionWorker(i, delete_ok, add_ok) =>
            LET job == jobs[i] IN
            /\ DOMAIN documents_storage' = DOMAIN documents_storage
            /\ DOMAIN knowledge_bases' = DOMAIN knowledge_bases
            /\ (\/ job.doc_id \notin DOMAIN documents_storage
                \/ job.kb_id \notin DOMAIN knowledge_bases)
               => /\ documents_storage' = documents_storage
                  /\ knowledge_bases' = knowledge_bases
            /\ (/\ job.doc_id \in DOMAIN documents_storage
                /\ documents_storage'[job.doc_id].status = "failed")
               => knowledge_bases' = knowledge_bases]_vars

\* C32: delete_dataset and delete_documents leave the vector index exactly
\* as it was: the chunks committed for a deleted document or knowledge base
\* stay in the index.
C32_DeletionsKeepIndex ==
    [][(response'.op \in {"delete_dataset", "delete_documents"}) =>
          /\ \/ \E dataset_id \in DatasetIds : delete_dataset(dataset_id)
             \/ \E dataset_id \in DatasetIds, document_ids \in DocIdLists :
                   delete_documents(dataset_id, document_ids)
          /\ vector_index' = vector_index]_vars

\* C32 witness: a knowledge base was deleted with its records, and the index
\* still holds a chunk committed for it
C32_Witness ==
    /\ response.op = "delete_dataset"
    /\ response.code = 0
    /\ Uploaded = {}
    /\ \E id \in DOMAIN vector_index :
          vector_index[id].metadata.kb_id \notin DOMAIN knowledge_bases

\* the task is not terminal, or it finished at most one hour ago
C33_Live(task_info) ==
    \/ task_info.status \in {"processing", "retrieving", "generating"}
    \/ /\ task_info.status = "completed"
       /\ now - task_info.completed_at.iso <= RetentionHours * TicksPerHour
    \/ /\ task_info.status = "failed"
       /\ now - task_info.failed_at.iso <= RetentionHours * TicksPerHour

\* C33: a poll of a task that is not terminal, however old, or that finished
\* at most one hour ago, returns the task's record and leaves chat_tasks as
\* it was; and an entry leaves chat_tasks only by a poll of it, answered 404,
\* when it is terminal and finished more than one hour ago.
C33_PollKeepsLiveTasks ==
    /\ [][\A t \in DOMAIN chat_tasks :
            (/\ response'.op = "get_chat_task"
             /\ response'.detail.task_id = t
             /\ C33_Live(chat_tasks[t]))
            => /\ response'.code = 200
               /\ response'.body = chat_tasks[t]
               /\ chat_tasks' = chat_tasks]_vars
    /\ [][\A t \in DOMAIN chat_tasks :
            t \notin DOMAIN chat_tasks' =>
               /\ response'.op = "get_chat_task"
               /\ response'.code = 404
               /\ response'.detail.task_id = t
               /\ ~C33_Live(chat_tasks[t])
               /\ DOMAIN chat_tasks' = (DOMAIN chat_tasks) \ {t}]_vars

\* C33 witness: a poll returned the record of a task that was submitted more
\* than one hour ago and is still being worked on
C33_Witness ==
    /\ response.op = "get_chat_task"
    /\ response.code = 200
    /\ response.body.status \in {"processing", "retrieving", "generating"}
    /\ now - response.body.created_at.iso > RetentionHours * TicksPerHour
    /\ response.detail.task_id \in DOMAIN chat_tasks
    /\ chat_tasks[response.detail.task_id] = response.body

====
